---------------------------- MODULE Spec2Model ----------------------------
(***************************************************************************)
(* A model of the mcp-google-sheets server: the spreadsheet URL parser,    *)
(* the column-letter conversion, the search tools, the sheet tools and the *)
(* value tools, in their MCP tool-module form (src/src/tools/*.js, here    *)
(* concatenated in src/src/tools/search.tools.js, value-handlers.js and    *)
(* utils/logger.js) and in their legacy handler form (valueHandlers,       *)
(* sheetHandlers, GoogleSheetsClient).                                     *)
(*                                                                         *)
(* JavaScript strings are sequences of one-character strings, so that      *)
(* startsWith, includes, toLowerCase, the regular expressions and the      *)
(* query-string parse are computed character by character.  A JavaScript   *)
(* value is a record tagged by its type (undefined, null, string, number,  *)
(* array), so that the truthiness tests of the code (!x, x || y) are       *)
(* computed as JavaScript computes them.                                   *)
(***************************************************************************)
EXTENDS Integers, Sequences, FiniteSets, TLC

VARIABLES
    pc,        \* "ready" before the operation runs, "done" after it returned
    op,        \* the operation that ran ("none" before)
    args,      \* the arguments of the operation
    world,     \* what the upstream Sheets API holds and answers
    result,    \* the outcome of the operation
    requests   \* the upstream requests the operation issued, in order

vars == <<pc, op, args, world, result, requests>>

(***************************************************************************)
(* JavaScript values                                                       *)
(***************************************************************************)
Undefined == [t |-> "undefined"]
Null == [t |-> "null"]
Str(s) == [t |-> "string", v |-> s]
Num(n) == [t |-> "number", v |-> n]
Arr(a) == [t |-> "array", v |-> a]
Bool(b) == [t |-> "boolean", v |-> b]

\* ToBoolean: undefined, null, "" and 0 are falsy; an array is always truthy.
Truthy(x) ==
    CASE x.t = "undefined" -> FALSE
      [] x.t = "null" -> FALSE
      [] x.t = "string" -> x.v # <<>>
      [] x.t = "number" -> x.v # 0
      [] x.t = "boolean" -> x.v
      [] OTHER -> TRUE

\* a || b
OrElse(a, b) == IF Truthy(a) THEN a ELSE b

Return(v) == [kind |-> "return", value |-> v]
Throw(e) == [kind |-> "throw", error |-> e]

(***************************************************************************)
(* Characters and strings                                                  *)
(***************************************************************************)
LowerLetters ==
    <<"a", "b", "c", "d", "e", "f", "g", "h", "i", "j", "k", "l", "m",
      "n", "o", "p", "q", "r", "s", "t", "u", "v", "w", "x", "y", "z">>
UpperLetters ==
    <<"A", "B", "C", "D", "E", "F", "G", "H", "I", "J", "K", "L", "M",
      "N", "O", "P", "Q", "R", "S", "T", "U", "V", "W", "X", "Y", "Z">>
DigitChars == <<"0", "1", "2", "3", "4", "5", "6", "7", "8", "9">>

Range(f) == {f[i] : i \in DOMAIN f}
Min(S) == CHOOSE x \in S : \A y \in S : x <= y

\* \d
DigitClass == Range(DigitChars)
\* [a-zA-Z0-9-_]
IdClass == Range(LowerLetters) \cup Range(UpperLetters) \cup DigitClass \cup {"-", "_"}

\* String.prototype.startsWith
StartsWith(s, p) == Len(s) >= Len(p) /\ SubSeq(s, 1, Len(p)) = p

\* String.prototype.indexOf, 1-based; 0 when p does not occur in s
IndexOf(s, p) ==
    LET hits == {i \in 1..(Len(s) - Len(p) + 1) : SubSeq(s, i, i + Len(p) - 1) = p}
    IN IF hits = {} THEN 0 ELSE Min(hits)

\* String.prototype.includes
Includes(s, p) == IndexOf(s, p) # 0

\* String.prototype.toLowerCase on the ASCII letters
ToLowerChar(c) ==
    IF c \in Range(UpperLetters)
    THEN LowerLetters[CHOOSE i \in 1..26 : UpperLetters[i] = c]
    ELSE c
ToLowerCase(s) == [i \in 1..Len(s) |-> ToLowerChar(s[i])]

\* The longest run of characters of class cls that starts at s[i].
RECURSIVE RunOf(_, _, _)
RunOf(s, i, cls) ==
    IF i <= Len(s) /\ s[i] \in cls THEN <<s[i]>> \o RunOf(s, i + 1, cls) ELSE <<>>

\* The first match of the regular expression /<lit>(<cls>+)/ in s: the
\* leftmost place where lit is followed by at least one character of cls, and
\* the greedy group after it.
RegexLitGroup(s, lit, cls) ==
    LET hits == {i \in 1..(Len(s) - Len(lit)) :
                    /\ SubSeq(s, i, i + Len(lit) - 1) = lit
                    /\ s[i + Len(lit)] \in cls}
    IN IF hits = {}
       THEN [matched |-> FALSE]
       ELSE [matched |-> TRUE, group1 |-> RunOf(s, Min(hits) + Len(lit), cls)]

\* String.prototype.split on a one-character separator
RECURSIVE Split(_, _)
Split(s, sep) ==
    LET i == IndexOf(s, <<sep>>)
    IN IF i = 0
       THEN <<s>>
       ELSE <<SubSeq(s, 1, i - 1)>> \o Split(SubSeq(s, i + 1, Len(s)), sep)

(***************************************************************************)
(* URL parser (utils/url-parser)                                           *)
(***************************************************************************)
HttpPrefix == <<"h", "t", "t", "p", ":", "/", "/">>
HttpsPrefix == <<"h", "t", "t", "p", "s", ":", "/", "/">>
SpreadsheetsD ==
    <<"/", "s", "p", "r", "e", "a", "d", "s", "h", "e", "e", "t", "s", "/", "d", "/">>
HashGid == <<"#", "g", "i", "d", "=">>
GidName == <<"g", "i", "d">>

\* new URL(url).search without its "?": the text after the first "?" that is
\* not in the fragment, up to the fragment.
UrlQuery(url) ==
    LET q == IndexOf(url, <<"?">>)
        h == IndexOf(url, <<"#">>)
    IN IF q = 0 \/ (h # 0 /\ h < q)
       THEN <<>>
       ELSE SubSeq(url, q + 1, IF h = 0 THEN Len(url) ELSE h - 1)

\* One "name=value" piece of a query string: split at the first "=".
PairName(p) ==
    LET e == IndexOf(p, <<"=">>) IN IF e = 0 THEN p ELSE SubSeq(p, 1, e - 1)
PairValue(p) ==
    LET e == IndexOf(p, <<"=">>) IN IF e = 0 THEN <<>> ELSE SubSeq(p, e + 1, Len(p))

\* URLSearchParams.get(name): the value of the first pair called name, else
\* null.  Empty pieces ("a&&b") are skipped.  (Percent-decoding and "+" are
\* not modelled: the inputs hold neither "%" nor "+".)
SearchParamsGet(url, name) ==
    LET pieces == Split(UrlQuery(url), "&")
        hits == {i \in 1..Len(pieces) : pieces[i] # <<>> /\ PairName(pieces[i]) = name}
    IN IF hits = {} THEN Null ELSE Str(PairValue(pieces[Min(hits)]))

\* parseGoogleSheetsUrl with the fragment gid overriding the query gid.
parseGoogleSheetsUrl_HashFirst(url) ==
    LET spreadsheetMatch == RegexLitGroup(url, SpreadsheetsD, IdClass)
        gidParam == SearchParamsGet(url, GidName)
        hashMatch == RegexLitGroup(url, HashGid, DigitClass)
    IN IF ~spreadsheetMatch.matched
       THEN Throw("Invalid Google Sheets URL")
       ELSE Return([spreadsheetId |-> spreadsheetMatch.group1,
                    gid |-> IF hashMatch.matched THEN Str(hashMatch.group1)
                            ELSE IF Truthy(gidParam) THEN gidParam ELSE Null])

\* parseGoogleSheetsUrl that accepts any URL: a failed match gives an empty id.
parseGoogleSheetsUrl_NoReject(url) ==
    LET spreadsheetMatch == RegexLitGroup(url, SpreadsheetsD, IdClass)
        gidParam == SearchParamsGet(url, GidName)
    IN Return([spreadsheetId |-> IF spreadsheetMatch.matched
                                 THEN spreadsheetMatch.group1 ELSE <<>>,
               gid |-> IF Truthy(gidParam) THEN gidParam ELSE Null])

parseGoogleSheetsUrl(url) ==
    LET spreadsheetMatch == RegexLitGroup(url, SpreadsheetsD, IdClass)
        gidParam == SearchParamsGet(url, GidName)
        gid1 == IF Truthy(gidParam) THEN gidParam ELSE Null
        hashMatch == RegexLitGroup(url, HashGid, DigitClass)
        gid2 == IF ~Truthy(gid1) /\ Includes(url, HashGid) /\ hashMatch.matched
                THEN Str(hashMatch.group1)
                ELSE gid1
    IN IF ~spreadsheetMatch.matched
       THEN Throw("Invalid Google Sheets URL")
       ELSE Return([spreadsheetId |-> spreadsheetMatch.group1, gid |-> gid2])

\* parseSpreadsheetInput that takes the id of a bare input to be its id
\* characters only.
parseSpreadsheetInput_IdCharsOnly(input) ==
    IF ~Truthy(input)
    THEN Throw("Spreadsheet ID or URL is required")
    ELSE IF StartsWith(input.v, HttpPrefix) \/ StartsWith(input.v, HttpsPrefix)
    THEN parseGoogleSheetsUrl(input.v)
    ELSE Return([spreadsheetId |-> RunOf(input.v, 1, IdClass), gid |-> Null])

parseSpreadsheetInput(input) ==
    IF ~Truthy(input)
    THEN Throw("Spreadsheet ID or URL is required")
    ELSE IF StartsWith(input.v, HttpPrefix) \/ StartsWith(input.v, HttpsPrefix)
    THEN parseGoogleSheetsUrl(input.v)
    ELSE Return([spreadsheetId |-> input.v, gid |-> Null])

(***************************************************************************)
(* The inputs of the parser: URLs put together from their parts, so that   *)
(* what the parser finds can be compared with the parts, and inputs that   *)
(* are not http(s) URLs.                                                   *)
(***************************************************************************)
NoWorld == [t |-> "none"]
NoResult == [kind |-> "none"]

Host == <<"d", ".", "g">>
SheetIds == {<<"a", "B", "1">>, <<"x", "-", "_", "9">>}
\* what follows the id in the path
PathTails == {<<>>, <<"/">>, <<"/", "e", "d", "i", "t">>}
\* paths with no /spreadsheets/d/{id}
OtherPaths ==
    { <<>>,
      <<"/">>,
      <<"/", "d", "o", "c", "u", "m", "e", "n", "t", "/", "d", "/", "a", "B", "1", "/", "e", "d", "i", "t">>,
      <<"/", "s", "p", "r", "e", "a", "d", "s", "h", "e", "e", "t", "s", "/", "d", "/">>,
      <<"/", "s", "p", "r", "e", "a", "d", "s", "h", "e", "e", "t", "s", "/", "a", "B", "1">> }

\* A query is a sequence of name/value pairs; absent is the query <<>>.
Pair(n, v) == [name |-> n, value |-> v]
Queries ==
    { <<>>,
      <<Pair(GidName, <<"1", "2">>)>>,
      <<Pair(GidName, <<"0">>)>>,
      <<Pair(GidName, <<>>)>>,
      <<Pair(<<"x">>, <<"1">>), Pair(GidName, <<"3", "4">>)>>,
      <<Pair(GidName, <<"a", "b">>)>>,
      <<Pair(GidName, <<"7">>), Pair(GidName, <<"8">>)>>,
      <<Pair(<<"u">>, SpreadsheetsD \o <<"z", "z">>)>> }

\* A fragment is absent, or "gid=" followed by digits and a rest that starts
\* with no digit, or some other text.
NoFragment == [present |-> FALSE]
GidFragment(d, r) == [present |-> TRUE, isGid |-> TRUE, digits |-> d, rest |-> r]
TextFragment(x) == [present |-> TRUE, isGid |-> FALSE, text |-> x]
Fragments ==
    { NoFragment,
      GidFragment(<<"1", "2">>, <<>>),
      GidFragment(<<"5", "6">>, <<>>),
      GidFragment(<<"0">>, <<>>),
      GidFragment(<<>>, <<>>),
      GidFragment(<<>>, <<"x">>),
      GidFragment(<<"7">>, <<"z">>),
      TextFragment(<<"r", "a", "n", "g", "e", "=", "A", "1">>) }

RECURSIVE QueryText(_)
QueryText(q) ==
    IF q = <<>> THEN <<>>
    ELSE q[1].name \o <<"=">> \o q[1].value
         \o (IF Len(q) = 1 THEN <<>> ELSE <<"&">> \o QueryText(Tail(q)))

FragmentText(f) ==
    IF ~f.present THEN <<>>
    ELSE IF f.isGid THEN <<"#">> \o GidName \o <<"=">> \o f.digits \o f.rest
    ELSE <<"#">> \o f.text

UrlText(u) ==
    u.scheme \o Host \o u.path
    \o (IF u.query = <<>> THEN <<>> ELSE <<"?">> \o QueryText(u.query))
    \o FragmentText(u.fragment)

SheetUrls ==
    { [kind |-> "sheetUrl", scheme |-> s, id |-> i, path |-> SpreadsheetsD \o i \o t,
       slash |-> (t # <<>>), query |-> q, fragment |-> f] :
        s \in {HttpPrefix, HttpsPrefix}, i \in SheetIds, t \in PathTails,
        q \in Queries, f \in Fragments }
OtherUrls ==
    { [kind |-> "otherUrl", scheme |-> s, path |-> p, query |-> q, fragment |-> f] :
        s \in {HttpPrefix, HttpsPrefix}, p \in OtherPaths,
        q \in Queries, f \in Fragments }

\* Inputs with no http:// or https:// at their start.
BareTexts ==
    { <<"a", "B", "1">>,
      <<"x", "-", "_", "9">>,
      <<"a", " ", "b">>,
      <<"h", "t", "t", "p", ":", "/", "a", "B", "1">>,
      <<"H", "T", "T", "P", "S", ":", "/", "/", "d", ".", "g", "/", "s", "p", "r", "e", "a", "d", "s", "h", "e", "e", "t", "s", "/", "d", "/", "a", "B", "1", "/", "e", "d", "i", "t">>,
      <<"d", ".", "g", "/", "s", "p", "r", "e", "a", "d", "s", "h", "e", "e", "t", "s", "/", "d", "/", "a", "B", "1", "/", "e", "d", "i", "t", "?", "g", "i", "d", "=", "1", "2">>,
      <<"f", "t", "p", ":", "/", "/", "d", ".", "g", "/", "s", "p", "r", "e", "a", "d", "s", "h", "e", "e", "t", "s", "/", "d", "/", "a", "B", "1">>,
      <<" ", "h", "t", "t", "p", "s", ":", "/", "/", "d", ".", "g">> }

ParseCases ==
    { [parts |-> u, input |-> Str(UrlText(u))] : u \in SheetUrls \cup OtherUrls }
    \cup { [parts |-> [kind |-> "bare"], input |-> Str(b)] : b \in BareTexts }
    \cup { [parts |-> [kind |-> "empty"], input |-> Str(<<>>)],
           [parts |-> [kind |-> "missing"], input |-> Undefined] }

(***************************************************************************)
(* SpecParse: one call of parseSpreadsheetInput on each input.             *)
(***************************************************************************)
InitParse ==
    /\ pc = "ready"
    /\ op = "none"
    /\ args \in ParseCases
    /\ world = NoWorld
    /\ result = NoResult
    /\ requests = <<>>

CallParse ==
    /\ pc = "ready"
    /\ pc' = "done"
    /\ op' = "parseSpreadsheetInput"
    /\ result' = parseSpreadsheetInput(args.input)
    /\ UNCHANGED <<args, world, requests>>

NextParse == CallParse

SpecParse == InitParse /\ [][NextParse]_vars

(***************************************************************************)
(* Column letters (tools/search and tools/sheet each hold a copy)          *)
(***************************************************************************)
\* String.fromCharCode on the codes of the upper-case letters, 65..90
FromCharCode(c) == UpperLetters[c - 64]

\* A straight base-26 conversion (index = floor(index / 26), no "- 1").
RECURSIVE columnIndexToLetter_StraightBase26(_)
columnIndexToLetter_StraightBase26(index) ==
    IF index < 26
    THEN <<FromCharCode(index + 65)>>
    ELSE columnIndexToLetter_StraightBase26(index \div 26)
         \o <<FromCharCode((index % 26) + 65)>>

\* The loop of columnIndexToLetter: while (index >= 0) { ... }
RECURSIVE columnIndexToLetterLoop(_, _)
columnIndexToLetterLoop(index, letter) ==
    IF index >= 0
    THEN columnIndexToLetterLoop((index \div 26) - 1,
                                 <<FromCharCode((index % 26) + 65)>> \o letter)
    ELSE letter

\* tools/search
columnIndexToLetter(index) == columnIndexToLetterLoop(index, <<>>)

RECURSIVE SheetTools_columnIndexToLetterLoop(_, _)
SheetTools_columnIndexToLetterLoop(index, letter) ==
    IF index >= 0
    THEN SheetTools_columnIndexToLetterLoop(
             (index \div 26) - 1, <<FromCharCode((index % 26) + 65)>> \o letter)
    ELSE letter

\* tools/sheet
SheetTools_columnIndexToLetter(index) == SheetTools_columnIndexToLetterLoop(index, <<>>)

(***************************************************************************)
(* SpecColumn: one call of either copy of columnIndexToLetter on each      *)
(* index up to MaxColumnIndex.                                             *)
(***************************************************************************)
MaxColumnIndex == 703

InitColumn ==
    /\ pc = "ready"
    /\ op = "none"
    /\ args \in [index : 0..MaxColumnIndex]
    /\ world = NoWorld
    /\ result = NoResult
    /\ requests = <<>>

CallSearchColumnIndexToLetter ==
    /\ pc = "ready"
    /\ pc' = "done"
    /\ op' = "search.columnIndexToLetter"
    /\ result' = Return(columnIndexToLetter(args.index))
    /\ UNCHANGED <<args, world, requests>>

CallSheetColumnIndexToLetter ==
    /\ pc = "ready"
    /\ pc' = "done"
    /\ op' = "sheet.columnIndexToLetter"
    /\ result' = Return(SheetTools_columnIndexToLetter(args.index))
    /\ UNCHANGED <<args, world, requests>>

NextColumn == CallSearchColumnIndexToLetter \/ CallSheetColumnIndexToLetter

SpecColumn == InitColumn /\ [][NextColumn]_vars

(***************************************************************************)
(* The upstream Sheets API, as far as the tools see it.  world is either   *)
(* [status |-> "error"] (every request is answered with a non-2xx status,  *)
(* which the googleapis client throws) or [status |-> "ok", id, sheets]:   *)
(* the one spreadsheet `id` and its sheets, each with its properties        *)
(* (sheetId, title, index) and its grid.  A grid is a sequence of rows of  *)
(* cell strings as values.get returns them (rendered as FORMATTED_VALUE,   *)
(* so every cell is a string): no row ends with an empty cell and the grid *)
(* does not end with an empty row.                                         *)
(***************************************************************************)
\* Number to its decimal digits (template literals, toString)
RECURSIVE Decimal(_)
Decimal(n) ==
    IF n < 0 THEN <<"-">> \o Decimal(0 - n)
    ELSE IF n < 10 THEN <<DigitChars[n + 1]>>
    ELSE Decimal(n \div 10) \o <<DigitChars[(n % 10) + 1]>>

\* Decimal digits to the number
RECURSIVE DecimalValue(_)
DecimalValue(d) ==
    IF d = <<>> THEN 0
    ELSE 10 * DecimalValue(SubSeq(d, 1, Len(d) - 1))
         + ((CHOOSE k \in 1..10 : DigitChars[k] = d[Len(d)]) - 1)

\* A column label to its 0-based index, as the API reads A1 notation
RECURSIVE LabelValue(_)
LabelValue(l) ==
    IF l = <<>> THEN 0
    ELSE 26 * LabelValue(SubSeq(l, 1, Len(l) - 1))
         + (CHOOSE k \in 1..26 : UpperLetters[k] = l[Len(l)])

\* `${x}` in a template literal
TemplateText(x) ==
    CASE x.t = "string" -> x.v
      [] x.t = "number" -> Decimal(x.v)
      [] x.t = "null" -> <<"n", "u", "l", "l">>
      [] OTHER -> <<"u", "n", "d", "e", "f", "i", "n", "e", "d">>

\* The A1 range "<sheet>!<col><row>:<col><row>" read as the API reads it; a
\* range of another shape is refused.
A1Range(range) ==
    LET bang == IndexOf(range, <<"!">>)
        cells == Split(SubSeq(range, bang + 1, Len(range)), ":")
        Col(c) == RunOf(c, 1, Range(UpperLetters))
        Row(c) == SubSeq(c, Len(Col(c)) + 1, Len(c))
        WellFormed(c) == /\ Col(c) # <<>>
                         /\ Row(c) # <<>>
                         /\ \A k \in 1..Len(Row(c)) : Row(c)[k] \in DigitClass
                         /\ DecimalValue(Row(c)) >= 1
    IN IF bang = 0 \/ Len(cells) # 2 \/ ~WellFormed(cells[1]) \/ ~WellFormed(cells[2])
       THEN [valid |-> FALSE]
       ELSE [valid |-> TRUE,
             sheet |-> SubSeq(range, 1, bang - 1),
             col1 |-> LabelValue(Col(cells[1])), row1 |-> DecimalValue(Row(cells[1])),
             col2 |-> LabelValue(Col(cells[2])), row2 |-> DecimalValue(Row(cells[2]))]

\* Trailing empty elements dropped (cells of a row, rows of a grid)
RECURSIVE TrimTrailing(_)
TrimTrailing(q) ==
    IF q # <<>> /\ q[Len(q)] = <<>> THEN TrimTrailing(SubSeq(q, 1, Len(q) - 1)) ELSE q

Least(a, b) == IF a <= b THEN a ELSE b

\* The rows of grid inside the rectangle, as values.get returns them.
RectValues(grid, r) ==
    LET rowsIn == SubSeq(grid, r.row1, Least(r.row2, Len(grid)))
    IN TrimTrailing([i \in 1..Len(rowsIn) |->
           TrimTrailing(SubSeq(rowsIn[i], r.col1, Least(r.col2, Len(rowsIn[i]))))])

\* The sheets of the spreadsheet that carry the title (titles are unique)
SheetsTitled(w, title) == {k \in 1..Len(w.sheets) : w.sheets[k].properties.title = title}

\* values of a ValueRange: absent when the range holds nothing
ValuesField(vals) ==
    IF vals = <<>> THEN Undefined
    ELSE Arr([i \in 1..Len(vals) |-> [j \in 1..Len(vals[i]) |-> Str(vals[i][j])]])

\* The ValueRange of a range already read as the rectangle r.
ValueRange(w, spreadsheetId, range, r) ==
    IF w.status # "ok" \/ spreadsheetId # w.id \/ ~r.valid
    THEN Throw("upstream error")
    ELSE IF SheetsTitled(w, r.sheet) = {}
    THEN Throw("upstream error")
    ELSE Return([range |-> range,
                 values |-> ValuesField(RectValues(
                     w.sheets[CHOOSE k \in SheetsTitled(w, r.sheet) : TRUE].grid, r))])

\* spreadsheets.values.get: the ValueRange of the range; a throw on a non-2xx
\* answer (the API is down, the spreadsheet or the sheet does not exist, the
\* range cannot be read).
UpstreamGetValues(w, spreadsheetId, range) ==
    ValueRange(w, spreadsheetId, range, A1Range(range))

\* A values request of the read that goes out as an update.
ValuesGetRequest_Update(spreadsheetId, range) ==
    [api |-> "spreadsheets.values.update", spreadsheetId |-> spreadsheetId, range |-> range]

\* sheets.spreadsheets.values.get({ spreadsheetId, range })
ValuesGetRequest(spreadsheetId, range) ==
    [api |-> "spreadsheets.values.get", spreadsheetId |-> spreadsheetId, range |-> range]

(***************************************************************************)
(* Search tools (tools/search): search-values and find-in-column           *)
(***************************************************************************)
ExactText == <<"e", "x", "a", "c", "t">>
ContainsText == <<"c", "o", "n", "t", "a", "i", "n", "s">>

\* String(x) of a string, undefined or null
StringOf(x) == TemplateText(x)

\* A tool call's outcome and the upstream requests it issued.
Outcome(o, reqs) == [outcome |-> o, requests |-> reqs]

\* The match test of both tools, on the lower-cased cell and search text.
IsMatch(cellLower, searchLower, matchType) ==
    IF matchType = Str(ExactText)
    THEN cellLower = searchLower
    ELSE Includes(cellLower, searchLower)

\* A match test that compares the cell as it stands, without lower-casing it.
ScanRow_CaseSensitive(row, rowIdx, colIdx, searchLower, matchType, matches) ==
    LET Cell(c) == StringOf(OrElse(row[c + 1], Str(<<>>)))
        Hit(c) == IsMatch(Cell(c), searchLower, matchType)
        cols == SelectSeq([c \in 1..Len(row) |-> c - 1], Hit)
    IN matches \o [k \in 1..Len(cols) |->
                      [cellRef |-> columnIndexToLetter(cols[k]) \o Decimal(rowIdx + 1),
                       value |-> Cell(cols[k]),
                       row |-> rowIdx + 1,
                       col |-> columnIndexToLetter(cols[k])]]

\* row.forEach((cell, colIdx) => ...) of search-values, from colIdx on
RECURSIVE ScanRowFrom(_, _, _, _, _, _)
ScanRowFrom(row, rowIdx, colIdx, searchLower, matchType, matches) ==
    IF colIdx >= Len(row) THEN matches
    ELSE LET cellValue == StringOf(OrElse(row[colIdx + 1], Str(<<>>)))
             cellLower == ToLowerCase(cellValue)
             colLetter == columnIndexToLetter(colIdx)
             cellRef == colLetter \o Decimal(rowIdx + 1)
         IN ScanRowFrom(row, rowIdx, colIdx + 1, searchLower, matchType,
                IF IsMatch(cellLower, searchLower, matchType)
                THEN Append(matches, [cellRef |-> cellRef, value |-> cellValue,
                                      row |-> rowIdx + 1, col |-> colLetter])
                ELSE matches)

ScanRow(row, rowIdx, colIdx, searchLower, matchType, matches) ==
    ScanRowFrom(row, rowIdx, colIdx, searchLower, matchType, matches)

\* result.values.forEach((row, rowIdx) => ...) of search-values, from rowIdx
\* on.  The callback's "if (matches.length >= maxResults) return;" ends that
\* call of the callback only: forEach goes on to the next row.
RECURSIVE ScanRowsFrom(_, _, _, _, _, _)
ScanRowsFrom(values, rowIdx, searchLower, matchType, maxResults, matches) ==
    IF rowIdx >= Len(values) THEN matches
    ELSE ScanRowsFrom(values, rowIdx + 1, searchLower, matchType, maxResults,
                      ScanRow(values[rowIdx + 1], rowIdx, 0, searchLower, matchType, matches))

\* Array.prototype.slice(0, n)
Slice0(a, n) ==
    IF n >= 0 THEN SubSeq(a, 1, Least(n, Len(a)))
    ELSE SubSeq(a, 1, IF Len(a) + n > 0 THEN Len(a) + n ELSE 0)

\* The text block of a tool result, by what it says.
ToolText(kind, fields) == [content |-> [kind |-> kind, fields |-> fields], isError |-> FALSE]
ToolError(kind, fields) == [content |-> [kind |-> kind, fields |-> fields], isError |-> TRUE]

WholeSheet == <<"!", "A", "1", ":", "Z", "Z", "1", "0", "0", "0", "0">>

\* search-values, from "if (matches.length === 0)" on
SearchValuesReport(a, maxResults, request, matches) ==
    IF Len(matches) = 0
    THEN Outcome(Return(ToolText("no matches", [matches |-> <<>>, listed |-> <<>>])),
                 <<request>>)
    ELSE Outcome(Return(ToolText("found",
                     [matches |-> matches,
                      found |-> Len(matches),
                      listed |-> Slice0(matches, maxResults.v),
                      showingFirst |-> Len(matches) > maxResults.v])),
                 <<request>>)

\* search-values, from the answer of sheetsClient.getValues on
SearchValuesScan(a, matchType, maxResults, request, response) ==
    IF response.kind = "throw" THEN Outcome(response, <<request>>)
    ELSE IF ~Truthy(response.value.values) \/ Len(response.value.values.v) = 0
    THEN Outcome(Return(ToolText("no data", [matches |-> <<>>, listed |-> <<>>])),
                 <<request>>)
    ELSE IF a.searchText.t # "string"
    THEN Outcome(Throw("TypeError"), <<request>>)
    ELSE SearchValuesReport(a, maxResults, request,
             ScanRowsFrom(response.value.values.v, 0, ToLowerCase(a.searchText.v),
                          matchType, maxResults.v, <<>>))

\* search-values, from the parsed spreadsheetId on
SearchValuesFetch(a, w, parsed) ==
    LET matchType == OrElse(a.matchType, Str(ContainsText))
        maxResults == OrElse(a.maxResults, Num(50))
        range == TemplateText(a.sheetName) \o WholeSheet
    IN IF parsed.kind = "throw" THEN Outcome(parsed, <<>>)
       ELSE SearchValuesScan(a, matchType, maxResults,
                ValuesGetRequest(parsed.value.spreadsheetId, range),
                UpstreamGetValues(w, parsed.value.spreadsheetId, range))

\* handleToolCall(name = 'search-values')
SearchValues(a, w) == SearchValuesFetch(a, w, parseSpreadsheetInput(a.spreadsheetId))

\* result.values.forEach((row, rowIdx) => ...) of find-in-column, from rowIdx on
RECURSIVE ColumnScanFrom(_, _, _, _, _, _)
ColumnScanFrom(values, rowIdx, column, searchLower, matchType, matches) ==
    IF rowIdx >= Len(values) THEN matches
    ELSE LET row == values[rowIdx + 1]
             cell0 == IF Len(row) >= 1 THEN row[1] ELSE Undefined
             cellValue == StringOf(OrElse(cell0, Str(<<>>)))
             cellLower == ToLowerCase(cellValue)
             cellRef == TemplateText(column) \o Decimal(rowIdx + 1)
         IN ColumnScanFrom(values, rowIdx + 1, column, searchLower, matchType,
                IF IsMatch(cellLower, searchLower, matchType)
                THEN Append(matches, [cellRef |-> cellRef, value |-> cellValue,
                                      row |-> rowIdx + 1])
                ELSE matches)

\* find-in-column that numbers the rows from 0.
ColumnScan_RowFromZero(values, rowIdx, column, searchLower, matchType, matches) ==
    LET all == ColumnScanFrom(values, rowIdx, column, searchLower, matchType, matches)
    IN [k \in 1..Len(all) |->
           [cellRef |-> TemplateText(column) \o Decimal(all[k].row - 1),
            value |-> all[k].value, row |-> all[k].row - 1]]

ColumnScan(values, rowIdx, column, searchLower, matchType, matches) ==
    ColumnScanFrom(values, rowIdx, column, searchLower, matchType, matches)

\* find-in-column, from "if (matches.length === 0)" on
FindInColumnReport(a, request, matches) ==
    IF Len(matches) = 0
    THEN Outcome(Return(ToolText("no matches", [matches |-> <<>>])), <<request>>)
    ELSE Outcome(Return(ToolText("found", [matches |-> matches, found |-> Len(matches)])),
                 <<request>>)

\* find-in-column, from the answer of sheetsClient.getValues on
FindInColumnScan(a, matchType, request, response) ==
    IF response.kind = "throw" THEN Outcome(response, <<request>>)
    ELSE IF ~Truthy(response.value.values) \/ Len(response.value.values.v) = 0
    THEN Outcome(Return(ToolText("no data", [matches |-> <<>>])), <<request>>)
    ELSE IF a.searchText.t # "string"
    THEN Outcome(Throw("TypeError"), <<request>>)
    ELSE FindInColumnReport(a, request,
             ColumnScan(response.value.values.v, 0, a.column,
                        ToLowerCase(a.searchText.v), matchType, <<>>))

\* find-in-column, from the parsed spreadsheetId on
FindInColumnFetch(a, w, parsed) ==
    LET matchType == OrElse(a.matchType, Str(ContainsText))
        range == TemplateText(a.sheetName) \o <<"!">> \o TemplateText(a.column) \o <<"1", ":">>
                 \o TemplateText(a.column) \o <<"1", "0", "0", "0", "0">>
    IN IF parsed.kind = "throw" THEN Outcome(parsed, <<>>)
       ELSE FindInColumnScan(a, matchType,
                ValuesGetRequest(parsed.value.spreadsheetId, range),
                UpstreamGetValues(w, parsed.value.spreadsheetId, range))

\* handleToolCall(name = 'find-in-column')
FindInColumn(a, w) == FindInColumnFetch(a, w, parseSpreadsheetInput(a.spreadsheetId))

(***************************************************************************)
(* The server's tool callback (main): the handler's result, or an error    *)
(* result made of whatever the handler threw.                              *)
(***************************************************************************)
\* A callback whose catch returns its text without the error flag
ServerTool_NoFlag(name, o) ==
    IF o.kind = "throw"
    THEN ToolText("error executing", [tool |-> name, message |-> o.error])
    ELSE o.value

ServerTool(name, o) ==
    IF o.kind = "throw"
    THEN ToolError("error executing", [tool |-> name, message |-> o.error])
    ELSE o.value

(***************************************************************************)
(* Search calls against one sheet                                          *)
(***************************************************************************)
MaxRows == 3
MaxCols == 2
MaxResultsArg == 2

SheetTitle == <<"S", "1">>
NoArgs == [t |-> "none"]

CellTexts == {<<>>, <<"A", "b">>}
GridRows == {r \in UNION {[1..n -> CellTexts] : n \in 0..MaxCols} :
                r = <<>> \/ r[Len(r)] # <<>>}
ExampleGrid == << <<<<"N", "a", "m", "e">>, <<"S", "c", "o", "r", "e">>>>,
                  <<<<"A", "l", "i", "c", "e">>, <<"9", "5">>>> >>
Grids == {g \in UNION {[1..n -> GridRows] : n \in 0..MaxRows} :
             g = <<>> \/ g[Len(g)] # <<>>} \cup {ExampleGrid}

FailingWorld == [status |-> "error"]
SpreadsheetId == <<"a", "B", "1">>
SheetWorld(g) ==
    [status |-> "ok", id |-> SpreadsheetId,
     sheets |-> <<[properties |-> [sheetId |-> 0, title |-> SheetTitle, index |-> 0,
                                   gridProperties |-> [rowCount |-> 1000,
                                                       columnCount |-> 26]],
                  grid |-> g]>>]
SearchWorlds == {SheetWorld(g) : g \in Grids} \cup {FailingWorld}

SearchTexts == {<<>>, <<"a">>, <<"a", "B">>, <<"c">>, <<"A", "l", "i", "c", "e">>}
MatchTypes == {Undefined, Str(ExactText), Str(ContainsText)}
MaxResultsArgs == {Undefined, Num(10)} \cup {Num(n) : n \in 0..MaxResultsArg}
ColumnArgs == {<<UpperLetters[k]>> : k \in 1..(MaxCols + 1)}

\* a call with one of its arguments left out
Omitting(a, field) == [a EXCEPT ![field] = Undefined]

SearchValuesArgs ==
    {[spreadsheetId |-> Str(SpreadsheetId), sheetName |-> Str(SheetTitle),
      searchText |-> Str(t), matchType |-> m, maxResults |-> n] :
        t \in SearchTexts, m \in MatchTypes, n \in MaxResultsArgs}
    \cup {Omitting([spreadsheetId |-> Str(SpreadsheetId), sheetName |-> Str(SheetTitle),
                    searchText |-> Str(<<"a">>), matchType |-> Undefined,
                    maxResults |-> Undefined], f) :
             f \in {"spreadsheetId", "sheetName", "searchText"}}

FindInColumnArgs ==
    {[spreadsheetId |-> Str(SpreadsheetId), sheetName |-> Str(SheetTitle),
      column |-> Str(c), searchText |-> Str(t), matchType |-> m] :
        c \in ColumnArgs, t \in SearchTexts, m \in MatchTypes}
    \cup {Omitting([spreadsheetId |-> Str(SpreadsheetId), sheetName |-> Str(SheetTitle),
                    column |-> Str(<<"A">>), searchText |-> Str(<<"a">>),
                    matchType |-> Undefined], f) :
             f \in {"spreadsheetId", "sheetName", "column", "searchText"}}

InitSearch ==
    /\ pc = "ready"
    /\ op = "none"
    /\ args = NoArgs
    /\ world \in SearchWorlds
    /\ result = NoResult
    /\ requests = <<>>

\* One call of a tool through the server: a are the arguments, r the
\* handler's outcome and the requests it issued.
ToolCall(name, a, r) ==
    /\ pc' = "done"
    /\ op' = name
    /\ args' = a
    /\ result' = ServerTool(name, r.outcome)
    /\ requests' = requests \o r.requests
    /\ UNCHANGED world

CallSearchValues ==
    /\ pc = "ready"
    /\ \E a \in SearchValuesArgs : ToolCall("search-values", a, SearchValues(a, world))

CallFindInColumn ==
    /\ pc = "ready"
    /\ \E a \in FindInColumnArgs : ToolCall("find-in-column", a, FindInColumn(a, world))

NextSearch == CallSearchValues \/ CallFindInColumn

SpecSearch == InitSearch /\ [][NextSearch]_vars

(***************************************************************************)
(* Sheets by gid: the client's getSheetByGid, the get-sheet-by-gid tool    *)
(* and the legacy handler sheetHandlers.getSheetByGid                      *)
(***************************************************************************)
SpreadsheetsGetRequest(spreadsheetId, includeGridData) ==
    [api |-> "spreadsheets.get", spreadsheetId |-> spreadsheetId,
     includeGridData |-> includeGridData]

\* The properties and the URL the API gives of a spreadsheet
BookProperties ==
    [title |-> <<"B", "o", "o", "k">>, locale |-> <<"e", "n", "_", "U", "S">>,
     timeZone |-> <<"U", "T", "C">>]
SpreadsheetUrl(id) ==
    HttpsPrefix \o Host \o SpreadsheetsD \o id \o <<"/", "e", "d", "i", "t">>

\* spreadsheets.get without grid data: the spreadsheet's metadata, or a throw
\* on a non-2xx answer.
UpstreamGetSpreadsheet(w, spreadsheetId) ==
    IF w.status # "ok" \/ spreadsheetId # w.id
    THEN Throw("upstream error")
    ELSE Return([spreadsheetId |-> w.id,
                 properties |-> BookProperties,
                 spreadsheetUrl |-> SpreadsheetUrl(w.id),
                 sheets |-> [k \in 1..Len(w.sheets) |->
                                [properties |-> w.sheets[k].properties]]])

\* Number.prototype.toString / String.prototype.toString
toString(x) == TemplateText(x)

\* Array.prototype.find: the first element that passes, or undefined
\* (hits: the indices of the elements that pass)
Find(a, hits) == IF hits = {} THEN Undefined ELSE a[Min(hits)]

\* The comparison of getSheetByGid done on the numbers, without toString.
GidEquals_NoToString(sheetId, gid) == Num(sheetId) = gid

\* s.properties?.sheetId?.toString() === gid.toString()
GidEquals(sheetId, gid) == toString(Num(sheetId)) = toString(gid)

\* the sheets that pass the test of find in getSheetByGid
SheetsMatching(sheets, gid) ==
    {k \in 1..Len(sheets) : GidEquals(sheets[k].properties.sheetId, gid)}

\* getSheetByGid of the client, from the answer of getSpreadsheet on
SheetOfSpreadsheet(spreadsheet, gid, request) ==
    IF spreadsheet.kind = "throw" THEN Outcome(spreadsheet, <<request>>)
    ELSE IF SheetsMatching(spreadsheet.value.sheets, gid) = {}
    THEN Outcome(Return(Null), <<request>>)
    ELSE Outcome(Return(Find(spreadsheet.value.sheets,
                             SheetsMatching(spreadsheet.value.sheets, gid))),
                 <<request>>)

\* sheetsClient.getSheetByGid(spreadsheetId, gid)
getSheetByGid(w, spreadsheetId, gid) ==
    SheetOfSpreadsheet(UpstreamGetSpreadsheet(w, spreadsheetId), gid,
                       SpreadsheetsGetRequest(spreadsheetId, FALSE))

\* get-sheet-by-gid, from the answer of sheetsClient.getSheetByGid on
GetSheetByGidReport(gid, found) ==
    IF found.outcome.kind = "throw" THEN found
    ELSE IF found.outcome.value = Null
    THEN Outcome(Return(ToolError("sheet not found", [gid |-> gid])), found.requests)
    ELSE Outcome(Return(ToolText("sheet found", found.outcome.value.properties)),
                 found.requests)

\* get-sheet-by-gid without its "if (!gid)" return: the lookup is made with
\* whatever gid there is.
GetSheetByGidResolve_NoGidCheck(a, w, parsed) ==
    IF parsed.kind = "throw" THEN Outcome(parsed, <<>>)
    ELSE GetSheetByGidReport(
             IF ~Truthy(parsed.value.gid) /\ Truthy(a.gid) THEN a.gid ELSE parsed.value.gid,
             getSheetByGid(w, parsed.value.spreadsheetId,
                 IF ~Truthy(parsed.value.gid) /\ Truthy(a.gid) THEN a.gid ELSE parsed.value.gid))

\* get-sheet-by-gid testing the gid as a number: "0" counts as no gid.
GetSheetByGidResolve_NumberGid(a, w, parsed) ==
    IF parsed.kind = "throw" THEN Outcome(parsed, <<>>)
    ELSE LET gid == IF ~Truthy(parsed.value.gid) /\ Truthy(a.gid)
                    THEN a.gid ELSE parsed.value.gid
         IN IF ~Truthy(gid) \/ gid = Str(<<"0">>)
            THEN Outcome(Return(ToolError("no gid provided",
                                          [spreadsheetId |-> a.spreadsheetId,
                                           gid |-> a.gid])), <<>>)
            ELSE GetSheetByGidReport(gid,
                     getSheetByGid(w, parsed.value.spreadsheetId, gid))

\* get-sheet-by-gid, from the parsed input on
GetSheetByGidResolve(a, w, parsed) ==
    IF parsed.kind = "throw" THEN Outcome(parsed, <<>>)
    ELSE LET gid == IF ~Truthy(parsed.value.gid) /\ Truthy(a.gid)
                    THEN a.gid ELSE parsed.value.gid
         IN IF ~Truthy(gid)
            THEN Outcome(Return(ToolError("no gid provided",
                                          [spreadsheetId |-> a.spreadsheetId,
                                           gid |-> a.gid])), <<>>)
            ELSE GetSheetByGidReport(gid,
                     getSheetByGid(w, parsed.value.spreadsheetId, gid))

\* get-sheet-by-gid taking url before spreadsheetId.
GetSheetByGid_UrlFirst(a, w) ==
    IF ~Truthy(OrElse(a.url, a.spreadsheetId))
    THEN Outcome(Return(ToolError("missing spreadsheet id", [args |-> a])), <<>>)
    ELSE GetSheetByGidResolve(a, w, parseSpreadsheetInput(OrElse(a.url, a.spreadsheetId)))

\* handleToolCall(name = 'get-sheet-by-gid')
GetSheetByGid(a, w) ==
    IF ~Truthy(OrElse(a.spreadsheetId, a.url))
    THEN Outcome(Return(ToolError("missing spreadsheet id", [args |-> a])), <<>>)
    ELSE GetSheetByGidResolve(a, w, parseSpreadsheetInput(OrElse(a.spreadsheetId, a.url)))

(***************************************************************************)
(* The legacy client (GoogleSheetsClient) and sheetHandlers.getSheetByGid. *)
(* The client is the one the constructor leaves: no access token cached,   *)
(* so its first request is preceded by a token request.                    *)
(***************************************************************************)
Success(data) == [success |-> TRUE, data |-> data]
Failure(error) == [success |-> FALSE, error |-> error]

\* An envelope of what was thrown that still carries a data field.
Envelope_ErrorWithData(o) ==
    IF o.kind = "throw" THEN [success |-> FALSE, error |-> o.error, data |-> Null]
    ELSE Success(o.value)

\* {success: true, data} of what resolved, {success: false, error} of what
\* was thrown (try { ... } catch (error) { ... } of the client's methods)
Envelope(o) == IF o.kind = "throw" THEN Failure(o.error) ELSE Success(o.value)

TokenRequest == [api |-> "oauth2.token"]
SpreadsheetsPath == <<"/", "s", "p", "r", "e", "a", "d", "s", "h", "e", "e", "t", "s", "/">>

\* What a call did: its outcome, the requests it sent, the spreadsheet after
Effect(o, reqs, w) == [outcome |-> o, requests |-> reqs, world |-> w]

\* What the API answers to a request: answer, and the spreadsheet afterwards
Answer(o, w) == [answer |-> o, world |-> w]

\* An authenticated request of the client (get, put, the POST of
\* appendValues): the token request of getAccessToken, then the request,
\* resolved on status 200 and rejected otherwise.
LegacyRequest(w, method, path, answered) ==
    IF w.status # "ok"
    THEN Effect(Throw("Token request failed"), <<TokenRequest>>, w)
    ELSE Effect(answered.answer, <<TokenRequest, [api |-> method, path |-> path]>>,
                answered.world)

\* GoogleSheetsClient.get(path), answer being the upstream's answer to it
LegacyGet(w, path, answer) == LegacyRequest(w, "https.get", path, Answer(answer, w))

\* what a method of the client resolves to: its envelope and its requests
Enveloped(got) == Effect(Return(Envelope(got.outcome)), got.requests, got.world)

\* GoogleSheetsClient.getSpreadsheet(spreadsheetId, false)
LegacyGetSpreadsheet(w, spreadsheetId) ==
    Enveloped(LegacyGet(w, SpreadsheetsPath \o TemplateText(spreadsheetId),
                        UpstreamGetSpreadsheet(w, TemplateText(spreadsheetId))))

\* sheet => ({title, sheetId, index, rowCount, columnCount})
SheetSummary(sheet) ==
    [title |-> sheet.properties.title,
     sheetId |-> sheet.properties.sheetId,
     index |-> sheet.properties.index,
     rowCount |-> sheet.properties.gridProperties.rowCount,
     columnCount |-> sheet.properties.gridProperties.columnCount]

\* listSheets, from the result of getSpreadsheet on
SheetsListed(got) ==
    IF ~got.outcome.value.success THEN got
    ELSE Outcome(Return(Success([k \in 1..Len(got.outcome.value.data.sheets) |->
                                    SheetSummary(got.outcome.value.data.sheets[k])])),
                 got.requests)

\* GoogleSheetsClient.listSheets(spreadsheetId)
LegacyListSheets(w, spreadsheetId) == SheetsListed(LegacyGetSpreadsheet(w, spreadsheetId))

\* s => s.sheetId === args.gid: the listed sheets that pass
SummariesMatching(data, gid) == {k \in 1..Len(data) : Num(data[k].sheetId) = gid}

\* sheetHandlers.getSheetByGid, from the result of client.listSheets on
LegacySheetFound(gid, listed) ==
    IF ~listed.outcome.value.success THEN listed
    ELSE IF SummariesMatching(listed.outcome.value.data, gid) = {}
    THEN Outcome(Return(Failure([kind |-> "Sheet with gid not found", gid |-> gid])),
                 listed.requests)
    ELSE Outcome(Return(Success(Find(listed.outcome.value.data,
                                     SummariesMatching(listed.outcome.value.data, gid)))),
                 listed.requests)

\* sheetHandlers.getSheetByGid(client, args)
LegacyGetSheetByGid(a, w) ==
    IF ~Truthy(a.spreadsheet_id)
    THEN Outcome(Return(Failure("spreadsheet_id is required")), <<>>)
    ELSE IF a.gid = Undefined \/ a.gid = Null
    THEN Outcome(Return(Failure("gid is required")), <<>>)
    ELSE LegacySheetFound(a.gid, LegacyListSheets(w, a.spreadsheet_id))

\* spreadsheets.get?includeGridData=true: the metadata with each sheet's cells
UpstreamGetSpreadsheetGridData(w, spreadsheetId) ==
    IF w.status # "ok" \/ spreadsheetId # w.id
    THEN Throw("upstream error")
    ELSE Return([spreadsheetId |-> w.id,
                 properties |-> BookProperties,
                 spreadsheetUrl |-> SpreadsheetUrl(w.id),
                 sheets |-> [k \in 1..Len(w.sheets) |->
                                [properties |-> w.sheets[k].properties,
                                 data |-> w.sheets[k].grid]]])

IncludeGridData ==
    <<"?", "i", "n", "c", "l", "u", "d", "e", "G", "r", "i", "d", "D", "a", "t", "a", "=",
      "t", "r", "u", "e">>

\* GoogleSheetsClient.getSpreadsheet(spreadsheetId, true)
LegacyGetSpreadsheetGridData(w, spreadsheetId) ==
    Enveloped(LegacyGet(w, SpreadsheetsPath \o TemplateText(spreadsheetId) \o IncludeGridData,
                        UpstreamGetSpreadsheetGridData(w, TemplateText(spreadsheetId))))

\* sheetHandlers.getSpreadsheet(client, args)
SheetHandlersGetSpreadsheet(a, w) ==
    IF ~Truthy(a.spreadsheet_id)
    THEN Outcome(Return(Failure("spreadsheet_id is required")), <<>>)
    ELSE IF Truthy(OrElse(a.include_grid_data, Bool(FALSE)))
    THEN LegacyGetSpreadsheetGridData(w, a.spreadsheet_id)
    ELSE LegacyGetSpreadsheet(w, a.spreadsheet_id)

\* sheetHandlers.listSheets(client, args)
SheetHandlersListSheets(a, w) ==
    IF ~Truthy(a.spreadsheet_id)
    THEN Outcome(Return(Failure("spreadsheet_id is required")), <<>>)
    ELSE LegacyListSheets(w, a.spreadsheet_id)

\* The legacy server's tool callback: the handler's envelope as JSON text.
LegacyServerTool(o) == ToolText("json", o.value)

(***************************************************************************)
(* Calls that look a sheet up by its gid                                   *)
(***************************************************************************)
MaxSheets == 2

SheetIdValues == {0, 7, 12}
SheetProperties(sheetId, index) ==
    [sheetId |-> sheetId, title |-> <<"S">> \o Decimal(index), index |-> index,
     gridProperties |-> [rowCount |-> 1000, columnCount |-> 26]]

\* Spreadsheets of 1..MaxSheets sheets with distinct gids
SpreadsheetWorlds ==
    {[status |-> "ok", id |-> SpreadsheetId,
      sheets |-> [k \in 1..Len(ids) |->
                     [properties |-> SheetProperties(ids[k], k - 1), grid |-> <<>>]]] :
        ids \in {q \in UNION {[1..n -> SheetIdValues] : n \in 1..MaxSheets} :
                    \A i, j \in 1..Len(q) : i # j => q[i] # q[j]}}
    \cup {FailingWorld}

EditPath == SpreadsheetsD \o SpreadsheetId \o <<"/", "e", "d", "i", "t">>
EditUrl(q, f) ==
    UrlText([scheme |-> HttpsPrefix, path |-> EditPath, query |-> q, fragment |-> f])

GidTexts == {<<"0">>, <<"7">>, <<"1", "2">>, <<"5">>, <<"0", "7">>}

SpreadsheetIdArgs ==
    {Undefined, Str(<<>>), Str(SpreadsheetId), Str(<<"x", "-", "_", "9">>),
     Str(EditUrl(<<>>, NoFragment)),
     Str(EditUrl(<<Pair(GidName, <<"7">>)>>, NoFragment)),
     Str(EditUrl(<<>>, GidFragment(<<"1", "2">>, <<>>))),
     Str(EditUrl(<<Pair(GidName, <<"5">>)>>, GidFragment(<<"7">>, <<>>))),
     Str(EditUrl(<<Pair(GidName, <<>>)>>, NoFragment)),
     Str(HttpsPrefix \o Host \o <<"/">>)}
UrlArgs ==
    SpreadsheetIdArgs \cup {Str(EditUrl(<<Pair(GidName, <<"0">>)>>, NoFragment)),
                            Str(EditUrl(<<>>, GidFragment(<<"0">>, <<>>)))}
GidArgs == {Undefined, Str(<<>>)} \cup {Str(g) : g \in GidTexts}

GetSheetByGidArgs ==
    {[spreadsheetId |-> i, url |-> u, gid |-> g] :
        i \in SpreadsheetIdArgs, u \in UrlArgs, g \in GidArgs}

ClientGetSheetByGidArgs ==
    {[spreadsheetId |-> i, gid |-> Str(g)] :
        i \in {SpreadsheetId, <<"x", "-", "_", "9">>}, g \in GidTexts}

LegacyGetSheetByGidArgs ==
    {[spreadsheet_id |-> i, gid |-> g] :
        i \in {Undefined, Str(<<>>), Str(SpreadsheetId), Str(<<"x", "-", "_", "9">>)},
        g \in {Undefined, Null, Num(0), Num(7), Num(12), Num(5)}}

InitSheet ==
    /\ pc = "ready"
    /\ op = "none"
    /\ args = NoArgs
    /\ world \in SpreadsheetWorlds
    /\ result = NoResult
    /\ requests = <<>>

\* One call of a function of the client or of a legacy handler: r is its
\* outcome (what it resolved to or threw) and the requests it issued.
DirectCall(name, a, r) ==
    /\ pc' = "done"
    /\ op' = name
    /\ args' = a
    /\ result' = r.outcome
    /\ requests' = requests \o r.requests
    /\ UNCHANGED world

\* One call of a tool of the legacy server
LegacyToolCall(name, a, r) ==
    /\ pc' = "done"
    /\ op' = name
    /\ args' = a
    /\ result' = LegacyServerTool(r.outcome)
    /\ requests' = requests \o r.requests
    /\ UNCHANGED world

CallGetSheetByGid ==
    /\ pc = "ready"
    /\ \E a \in GetSheetByGidArgs : ToolCall("get-sheet-by-gid", a, GetSheetByGid(a, world))

CallClientGetSheetByGid ==
    /\ pc = "ready"
    /\ \E a \in ClientGetSheetByGidArgs :
          DirectCall("sheetsClient.getSheetByGid", a,
                     getSheetByGid(world, a.spreadsheetId, a.gid))

CallLegacyGetSheetByGid ==
    /\ pc = "ready"
    /\ \E a \in LegacyGetSheetByGidArgs :
          LegacyToolCall("get_sheet_by_gid", a, LegacyGetSheetByGid(a, world))

NextSheet == CallGetSheetByGid \/ CallClientGetSheetByGid \/ CallLegacyGetSheetByGid

SpecSheet == InitSheet /\ [][NextSheet]_vars

(***************************************************************************)
(* The upstream's writes: values.update, values.append and values.clear on *)
(* the grid of the sheet a range names.  Each gives the answer and the     *)
(* spreadsheet as it is afterwards.                                        *)
(***************************************************************************)
Most(a, b) == IF a >= b THEN a ELSE b

\* The width of the widest row
RECURSIVE Width(_)
Width(rows) == IF rows = <<>> THEN 0 ELSE Most(Len(rows[1]), Width(Tail(rows)))

RECURSIVE CellCount(_)
CellCount(rows) == IF rows = <<>> THEN 0 ELSE Len(rows[1]) + CellCount(Tail(rows))

\* The cell of a grid, empty where the grid holds none
CellOf(g, i, j) == IF i <= Len(g) /\ j <= Len(g[i]) THEN g[i][j] ELSE <<>>

\* The grid with the rows vals (JS values) written from <<row1, col1>> on, each
\* value as the sheet renders it
Written(g, row1, col1, vals) ==
    TrimTrailing([i \in 1..Most(Len(g), row1 + Len(vals) - 1) |->
        TrimTrailing([j \in 1..Most(Width(g), col1 + Width(vals) - 1) |->
            IF /\ i - row1 + 1 \in 1..Len(vals)
               /\ j - col1 + 1 \in 1..Len(vals[i - row1 + 1])
            THEN TemplateText(vals[i - row1 + 1][j - col1 + 1])
            ELSE CellOf(g, i, j)])])

\* The grid with the cells of the rectangle emptied
Cleared(g, r) ==
    TrimTrailing([i \in 1..Len(g) |->
        TrimTrailing([j \in 1..Len(g[i]) |->
            IF i \in r.row1..r.row2 /\ j \in r.col1..r.col2 THEN <<>> ELSE g[i][j]])])

\* A request the API refuses: no spreadsheet of that id, no such sheet, a
\* range it cannot read, an upstream that is down.
Refused(w, spreadsheetId, r) ==
    \/ w.status # "ok"
    \/ spreadsheetId # w.id
    \/ ~r.valid
    \/ SheetsTitled(w, r.sheet) = {}

SheetIndex(w, r) == CHOOSE k \in SheetsTitled(w, r.sheet) : TRUE

WithGrid(w, k, g) ==
    [w EXCEPT !.sheets = [w.sheets EXCEPT ![k] = [w.sheets[k] EXCEPT !.grid = g]]]

\* spreadsheets.values.update (USER_ENTERED); values that do not fit in the
\* range are refused.
UpdateAnswer(w, spreadsheetId, range, r, vals) ==
    IF Refused(w, spreadsheetId, r) THEN Answer(Throw("upstream error"), w)
    ELSE IF Len(vals) > r.row2 - r.row1 + 1 \/ Width(vals) > r.col2 - r.col1 + 1
    THEN Answer(Throw("upstream error"), w)
    ELSE Answer(Return([spreadsheetId |-> spreadsheetId, updatedRange |-> range,
                        updatedRows |-> Len(vals), updatedColumns |-> Width(vals),
                        updatedCells |-> CellCount(vals)]),
                WithGrid(w, SheetIndex(w, r),
                         Written(w.sheets[SheetIndex(w, r)].grid, r.row1, r.col1, vals)))

UpstreamUpdateValues(w, spreadsheetId, range, vals) ==
    UpdateAnswer(w, spreadsheetId, range, A1Range(range), vals)

\* spreadsheets.values.append (USER_ENTERED, INSERT_ROWS) on a sheet whose
\* data is one table from A1 on: the rows go below the last row of the data.
AppendAnswer(w, spreadsheetId, range, r, vals) ==
    IF Refused(w, spreadsheetId, r) THEN Answer(Throw("upstream error"), w)
    ELSE Answer(Return([spreadsheetId |-> spreadsheetId, tableRange |-> range,
                        updates |-> [updatedRows |-> Len(vals),
                                     updatedColumns |-> Width(vals),
                                     updatedCells |-> CellCount(vals)]]),
                WithGrid(w, SheetIndex(w, r),
                         Written(w.sheets[SheetIndex(w, r)].grid,
                                 Len(w.sheets[SheetIndex(w, r)].grid) + 1, r.col1, vals)))

UpstreamAppendValues(w, spreadsheetId, range, vals) ==
    AppendAnswer(w, spreadsheetId, range, A1Range(range), vals)

\* spreadsheets.values.clear
ClearAnswer(w, spreadsheetId, range, r) ==
    IF Refused(w, spreadsheetId, r) THEN Answer(Throw("upstream error"), w)
    ELSE Answer(Return([spreadsheetId |-> spreadsheetId, clearedRange |-> range]),
                WithGrid(w, SheetIndex(w, r), Cleared(w.sheets[SheetIndex(w, r)].grid, r)))

UpstreamClearValues(w, spreadsheetId, range) ==
    ClearAnswer(w, spreadsheetId, range, A1Range(range))

(***************************************************************************)
(* Values tools (tools/values): get-values, update-values, append-values,  *)
(* clear-values, and the client functions they call.  The googleapis       *)
(* methods refuse a call whose required parameter (spreadsheetId, range)   *)
(* is undefined before anything is sent.                                   *)
(***************************************************************************)
MissingRange == Throw("Missing required parameters: range")

ValuesRequest(method, spreadsheetId, range) ==
    [api |-> method, spreadsheetId |-> spreadsheetId, range |-> range]

\* a request sent, with the upstream's answer to it
Sent(request, answered) == Effect(answered.answer, <<request>>, answered.world)

\* sheetsClient.getValues(spreadsheetId, range)
getValues(w, spreadsheetId, range) ==
    IF range = Undefined THEN Effect(MissingRange, <<>>, w)
    ELSE Effect(UpstreamGetValues(w, spreadsheetId, TemplateText(range)),
                <<ValuesGetRequest(spreadsheetId, TemplateText(range))>>, w)

\* sheetsClient.updateValues(spreadsheetId, range, values)
updateValues(w, spreadsheetId, range, values) ==
    IF values = Undefined THEN Effect(Throw("TypeError"), <<>>, w)
    ELSE IF range = Undefined THEN Effect(MissingRange, <<>>, w)
    ELSE Sent(ValuesRequest("spreadsheets.values.update", spreadsheetId, TemplateText(range)),
              UpstreamUpdateValues(w, spreadsheetId, TemplateText(range), values.v))

\* sheetsClient.appendValues(spreadsheetId, range, values)
appendValues(w, spreadsheetId, range, values) ==
    IF values = Undefined THEN Effect(Throw("TypeError"), <<>>, w)
    ELSE IF range = Undefined THEN Effect(MissingRange, <<>>, w)
    ELSE Sent(ValuesRequest("spreadsheets.values.append", spreadsheetId, TemplateText(range)),
              UpstreamAppendValues(w, spreadsheetId, TemplateText(range), values.v))

\* sheetsClient.clearValues(spreadsheetId, range)
clearValues(w, spreadsheetId, range) ==
    IF range = Undefined THEN Effect(MissingRange, <<>>, w)
    ELSE Sent(ValuesRequest("spreadsheets.values.clear", spreadsheetId, TemplateText(range)),
              UpstreamClearValues(w, spreadsheetId, TemplateText(range)))

\* The text result a values tool makes of what the client returned; what the
\* client threw goes on to the caller.
ValuesReport(kind, done) ==
    IF done.outcome.kind = "throw" THEN done
    ELSE Effect(Return(ToolText(kind, done.outcome.value)), done.requests, done.world)

\* A report that takes the first row for a header and does not count it
Sized_WithoutHeader(done) ==
    IF done.outcome.kind = "throw" THEN done
    ELSE Effect(Return([range |-> done.outcome.value.range,
                        values |-> done.outcome.value.values,
                        rowCount |-> IF done.outcome.value.values = Undefined THEN 0
                                     ELSE Len(done.outcome.value.values.v) - 1,
                        colCount |-> IF done.outcome.value.values = Undefined THEN 0
                                     ELSE Len(done.outcome.value.values.v[1])]),
                done.requests, done.world)

\* result.values?.length || 0 and result.values?.[0]?.length || 0
Sized(done) ==
    IF done.outcome.kind = "throw" THEN done
    ELSE Effect(Return([range |-> done.outcome.value.range,
                        values |-> done.outcome.value.values,
                        rowCount |-> IF done.outcome.value.values = Undefined THEN 0
                                     ELSE Len(done.outcome.value.values.v),
                        colCount |-> IF done.outcome.value.values = Undefined THEN 0
                                     ELSE Len(done.outcome.value.values.v[1])]),
                done.requests, done.world)

\* handleToolCall(name = 'get-values'), from the parsed spreadsheetId on
GetValuesParsed(a, w, parsed) ==
    IF parsed.kind = "throw" THEN Effect(parsed, <<>>, w)
    ELSE ValuesReport("values", Sized(getValues(w, parsed.value.spreadsheetId, a.range)))

GetValues(a, w) == GetValuesParsed(a, w, parseSpreadsheetInput(a.spreadsheetId))

\* handleToolCall(name = 'update-values'), from the parsed spreadsheetId on;
\* args.values.length is read before the client is called.
UpdateValuesParsed(a, w, parsed) ==
    IF parsed.kind = "throw" THEN Effect(parsed, <<>>, w)
    ELSE IF a.values = Undefined THEN Effect(Throw("TypeError"), <<>>, w)
    ELSE ValuesReport("values updated",
                      updateValues(w, parsed.value.spreadsheetId, a.range, a.values))

UpdateValues(a, w) == UpdateValuesParsed(a, w, parseSpreadsheetInput(a.spreadsheetId))

\* handleToolCall(name = 'append-values'), from the parsed spreadsheetId on
AppendValuesParsed(a, w, parsed) ==
    IF parsed.kind = "throw" THEN Effect(parsed, <<>>, w)
    ELSE IF a.values = Undefined THEN Effect(Throw("TypeError"), <<>>, w)
    ELSE ValuesReport("values appended",
                      appendValues(w, parsed.value.spreadsheetId, a.range, a.values))

AppendValues(a, w) == AppendValuesParsed(a, w, parseSpreadsheetInput(a.spreadsheetId))

\* what clear-values reports: the range of the call, not the client's answer
ClearReport(a, done) ==
    IF done.outcome.kind = "throw" THEN done
    ELSE Effect(Return(ToolText("values cleared", [range |-> a.range])),
                done.requests, done.world)

\* handleToolCall(name = 'clear-values'), from the parsed spreadsheetId on
ClearValuesParsed(a, w, parsed) ==
    IF parsed.kind = "throw" THEN Effect(parsed, <<>>, w)
    ELSE ClearReport(a, clearValues(w, parsed.value.spreadsheetId, a.range))

ClearValues(a, w) == ClearValuesParsed(a, w, parseSpreadsheetInput(a.spreadsheetId))

(***************************************************************************)
(* The legacy client's value methods and valueHandlers                     *)
(***************************************************************************)
\* Percent-encoding of the characters the ranges of the model hold that
\* encodeURIComponent and URLSearchParams escape
PercentCode(c) ==
    CASE c = ":" -> <<"%", "3", "A">>
      [] c = "/" -> <<"%", "2", "F">>
      [] c = "!" -> <<"%", "2", "1">>
      [] OTHER -> <<c>>

RECURSIVE Encoded(_, _)
Encoded(text, literal) ==
    IF text = <<>> THEN <<>>
    ELSE (IF text[1] \in literal THEN <<text[1]>> ELSE PercentCode(text[1]))
         \o Encoded(Tail(text), literal)

\* encodeURIComponent: "!" stays, ":" and "/" are escaped
encodeURIComponent(text) == Encoded(text, {"!"})

ValuesPath(spreadsheetId, range) ==
    SpreadsheetsPath \o TemplateText(spreadsheetId) \o <<"/", "v", "a", "l", "u", "e", "s", "/">>
    \o encodeURIComponent(TemplateText(range))

UserEntered == <<"?", "v", "a", "l", "u", "e", "I", "n", "p", "u", "t", "O", "p", "t", "i", "o", "n", "=",
                 "U", "S", "E", "R", "_", "E", "N", "T", "E", "R", "E", "D">>

\* GoogleSheetsClient.getValues(spreadsheetId, range, {})
LegacyClientGetValues(w, spreadsheetId, range) ==
    Enveloped(LegacyGet(w, ValuesPath(spreadsheetId, range),
                        UpstreamGetValues(w, TemplateText(spreadsheetId), TemplateText(range))))

\* params.append('ranges', range) for each range, then params.toString()
RECURSIVE RangesQuery(_)
RangesQuery(ranges) ==
    IF ranges = <<>> THEN <<>>
    ELSE <<"r", "a", "n", "g", "e", "s", "=">> \o Encoded(TemplateText(ranges[1]), {})
         \o (IF Len(ranges) = 1 THEN <<>> ELSE <<"&">> \o RangesQuery(Tail(ranges)))

\* spreadsheets.values.batchGet: the ValueRange of every range, or a throw
\* when one of them is refused
UpstreamBatchGet(w, spreadsheetId, ranges) ==
    IF \E k \in 1..Len(ranges) :
          UpstreamGetValues(w, spreadsheetId, TemplateText(ranges[k])).kind = "throw"
    THEN Throw("upstream error")
    ELSE Return([spreadsheetId |-> spreadsheetId,
                 valueRanges |-> [k \in 1..Len(ranges) |->
                     UpstreamGetValues(w, spreadsheetId, TemplateText(ranges[k])).value]])

\* GoogleSheetsClient.batchGetValues(spreadsheetId, ranges, {})
LegacyClientBatchGetValues(w, spreadsheetId, ranges) ==
    Enveloped(LegacyGet(w,
        SpreadsheetsPath \o TemplateText(spreadsheetId)
            \o <<"/", "v", "a", "l", "u", "e", "s", ":", "b", "a", "t", "c", "h", "G", "e", "t", "?">>
            \o RangesQuery(ranges.v),
        UpstreamBatchGet(w, TemplateText(spreadsheetId), ranges.v)))

\* GoogleSheetsClient.updateValues(spreadsheetId, range, values, {})
LegacyClientUpdateValues(w, spreadsheetId, range, values) ==
    Enveloped(LegacyRequest(w, "https.request PUT",
        ValuesPath(spreadsheetId, range) \o UserEntered,
        UpstreamUpdateValues(w, TemplateText(spreadsheetId), TemplateText(range), values.v)))

\* GoogleSheetsClient.appendValues(spreadsheetId, range, values, {})
LegacyClientAppendValues(w, spreadsheetId, range, values) ==
    Enveloped(LegacyRequest(w, "https.request POST",
        ValuesPath(spreadsheetId, range) \o <<":", "a", "p", "p", "e", "n", "d">> \o UserEntered,
        UpstreamAppendValues(w, TemplateText(spreadsheetId), TemplateText(range), values.v)))

\* a handler's validation failure: nothing is sent
Invalid(error, w) == Effect(Return(Failure(error)), <<>>, w)

\* valueHandlers.getValues(client, args)
LegacyGetValues(a, w) ==
    IF ~Truthy(a.spreadsheet_id) THEN Invalid("spreadsheet_id is required", w)
    ELSE IF ~Truthy(a.range) THEN Invalid("range is required (e.g., \"Sheet1!A1:B10\")", w)
    ELSE LegacyClientGetValues(w, a.spreadsheet_id, a.range)

\* valueHandlers.batchGetValues(client, args)
LegacyBatchGetValues(a, w) ==
    IF ~Truthy(a.spreadsheet_id) THEN Invalid("spreadsheet_id is required", w)
    ELSE IF ~Truthy(a.ranges) \/ a.ranges.t # "array" \/ Len(a.ranges.v) = 0
    THEN Invalid("ranges is required and must be a non-empty array", w)
    ELSE LegacyClientBatchGetValues(w, a.spreadsheet_id, a.ranges)

\* valueHandlers.updateValues(client, args)
LegacyUpdateValues(a, w) ==
    IF ~Truthy(a.spreadsheet_id) THEN Invalid("spreadsheet_id is required", w)
    ELSE IF ~Truthy(a.range) THEN Invalid("range is required (e.g., \"Sheet1!A1:B10\")", w)
    ELSE IF ~Truthy(a.values) \/ a.values.t # "array"
    THEN Invalid("values is required and must be a 2D array", w)
    ELSE LegacyClientUpdateValues(w, a.spreadsheet_id, a.range, a.values)

\* valueHandlers.appendValues(client, args)
LegacyAppendValues(a, w) ==
    IF ~Truthy(a.spreadsheet_id) THEN Invalid("spreadsheet_id is required", w)
    ELSE IF ~Truthy(a.range) THEN Invalid("range is required (e.g., \"Sheet1\" or \"Sheet1!A1\")", w)
    ELSE IF ~Truthy(a.values) \/ a.values.t # "array"
    THEN Invalid("values is required and must be a 2D array", w)
    ELSE LegacyClientAppendValues(w, a.spreadsheet_id, a.range, a.values)

(***************************************************************************)
(* Spreadsheet tools (tools/spreadsheet) and the other sheet tools         *)
(* (tools/sheet): create-spreadsheet, get-spreadsheet, list-sheets,        *)
(* get-sheet-info, get-sheet-preview                                       *)
(***************************************************************************)
\* sheetsClient.getSpreadsheet(spreadsheetId, includeGridData)
getSpreadsheet(w, spreadsheetId, includeGridData) ==
    Effect(IF includeGridData THEN UpstreamGetSpreadsheetGridData(w, spreadsheetId)
           ELSE UpstreamGetSpreadsheet(w, spreadsheetId),
           <<SpreadsheetsGetRequest(spreadsheetId, includeGridData)>>, w)

\* What the tools print of a sheet: title, sheetId, index, sheetType ||
\* 'GRID', rowCount || 0, columnCount || 0, hidden
SheetLine(sheet) ==
    [title |-> sheet.properties.title,
     sheetId |-> sheet.properties.sheetId,
     index |-> sheet.properties.index,
     type |-> "GRID",
     rowCount |-> sheet.properties.gridProperties.rowCount,
     columnCount |-> sheet.properties.gridProperties.columnCount,
     hidden |-> FALSE]

\* get-spreadsheet, from the answer of sheetsClient.getSpreadsheet on
GetSpreadsheetReport(got) ==
    IF got.outcome.kind = "throw" THEN got
    ELSE Effect(Return(ToolText("spreadsheet",
                    [title |-> got.outcome.value.properties.title,
                     spreadsheetId |-> got.outcome.value.spreadsheetId,
                     spreadsheetUrl |-> got.outcome.value.spreadsheetUrl,
                     locale |-> got.outcome.value.properties.locale,
                     timeZone |-> got.outcome.value.properties.timeZone,
                     count |-> Len(got.outcome.value.sheets),
                     sheets |-> [k \in 1..Len(got.outcome.value.sheets) |->
                                    SheetLine(got.outcome.value.sheets[k])]])),
                got.requests, got.world)

\* handleToolCall(name = 'get-spreadsheet'), from the parsed spreadsheetId on
GetSpreadsheetParsed(a, w, parsed) ==
    IF parsed.kind = "throw" THEN Effect(parsed, <<>>, w)
    ELSE GetSpreadsheetReport(
             getSpreadsheet(w, parsed.value.spreadsheetId,
                            Truthy(OrElse(a.includeGridData, Bool(FALSE)))))

GetSpreadsheet(a, w) == GetSpreadsheetParsed(a, w, parseSpreadsheetInput(a.spreadsheetId))

\* list-sheets, from the answer of sheetsClient.getSpreadsheet on
ListSheetsReport(got) ==
    IF got.outcome.kind = "throw" THEN got
    ELSE Effect(Return(ToolText("sheets",
                    [title |-> got.outcome.value.properties.title,
                     total |-> Len(got.outcome.value.sheets),
                     sheets |-> [k \in 1..Len(got.outcome.value.sheets) |->
                                    SheetLine(got.outcome.value.sheets[k])]])),
                got.requests, got.world)

\* handleToolCall(name = 'list-sheets'), from the parsed spreadsheetId on
ListSheetsParsed(a, w, parsed) ==
    IF parsed.kind = "throw" THEN Effect(parsed, <<>>, w)
    ELSE ListSheetsReport(getSpreadsheet(w, parsed.value.spreadsheetId, FALSE))

\* list-sheets handing args.spreadsheetId to the client as it was given
ListSheets_RawId(a, w) ==
    ListSheetsParsed(a, w,
        IF a.spreadsheetId.t = "string"
        THEN Return([spreadsheetId |-> a.spreadsheetId.v, gid |-> Null])
        ELSE parseSpreadsheetInput(a.spreadsheetId))

ListSheets(a, w) == ListSheetsParsed(a, w, parseSpreadsheetInput(a.spreadsheetId))

\* (s) => s.properties?.title === args.sheetName: the sheets that pass
SheetsNamed(sheets, sheetName) ==
    {k \in 1..Len(sheets) : Str(sheets[k].properties.title) = sheetName}

\* get-sheet-info, from the answer of sheetsClient.getSpreadsheet on
GetSheetInfoReport(a, got) ==
    IF got.outcome.kind = "throw" THEN got
    ELSE IF SheetsNamed(got.outcome.value.sheets, a.sheetName) = {}
    THEN Effect(Return(ToolError("no sheet named", [sheetName |-> a.sheetName])),
                got.requests, got.world)
    ELSE Effect(Return(ToolText("sheet info",
                    SheetLine(Find(got.outcome.value.sheets,
                                   SheetsNamed(got.outcome.value.sheets, a.sheetName))))),
                got.requests, got.world)

\* handleToolCall(name = 'get-sheet-info'), from the parsed spreadsheetId on
GetSheetInfoParsed(a, w, parsed) ==
    IF parsed.kind = "throw" THEN Effect(parsed, <<>>, w)
    ELSE GetSheetInfoReport(a, getSpreadsheet(w, parsed.value.spreadsheetId, FALSE))

GetSheetInfo(a, w) == GetSheetInfoParsed(a, w, parseSpreadsheetInput(a.spreadsheetId))

\* numRows: z.number().optional()
NumRowsArgs == {Undefined, Num(0), Num(1), Num(50), Num(60), Num(0 - 3)}

\* Math.min(args.numRows || 10, 50)
PreviewRows(numRows) == Least(OrElse(numRows, Num(10)).v, 50)

\* `${args.sheetName}!A1:ZZ${numRows}`
PreviewRange(sheetName, numRows) ==
    TemplateText(sheetName) \o <<"!", "A", "1", ":", "Z", "Z">> \o Decimal(numRows)

\* cell !== undefined && cell !== '' ? cell : '(empty)', with its reference
PreviewCell(cell, rowIdx, colIdx) ==
    [cellRef |-> SheetTools_columnIndexToLetter(colIdx) \o Decimal(rowIdx + 1),
     value |-> IF cell = Str(<<>>) THEN <<"(", "e", "m", "p", "t", "y", ")">> ELSE cell.v]

\* get-sheet-preview, from the answer of sheetsClient.getValues on
GetSheetPreviewReport(a, numRows, got) ==
    IF got.outcome.kind = "throw" THEN got
    ELSE IF got.outcome.value.values = Undefined
    THEN Effect(Return(ToolText("empty preview", [sheetName |-> a.sheetName])),
                got.requests, got.world)
    ELSE Effect(Return(ToolText("preview",
                    [sheetName |-> a.sheetName,
                     rows |-> Len(got.outcome.value.values.v),
                     maxCols |-> Width(got.outcome.value.values.v),
                     numRows |-> numRows,
                     cells |-> [i \in 1..Len(got.outcome.value.values.v) |->
                                  [j \in 1..Len(got.outcome.value.values.v[i]) |->
                                      PreviewCell(got.outcome.value.values.v[i][j],
                                                  i - 1, j - 1)]]])),
                got.requests, got.world)

\* handleToolCall(name = 'get-sheet-preview'), from the parsed spreadsheetId on
GetSheetPreviewParsed(a, w, parsed) ==
    IF parsed.kind = "throw" THEN Effect(parsed, <<>>, w)
    ELSE GetSheetPreviewReport(a, PreviewRows(a.numRows),
             getValues(w, parsed.value.spreadsheetId,
                       Str(PreviewRange(a.sheetName, PreviewRows(a.numRows)))))

GetSheetPreview(a, w) ==
    GetSheetPreviewParsed(a, w, parseSpreadsheetInput(a.spreadsheetId))

\* spreadsheets.create: a new spreadsheet of the title, 'Untitled
\* spreadsheet' without one
CreatedId == <<"n", "E", "w", "7">>
UpstreamCreate(w, title) ==
    IF w.status # "ok" THEN Throw("upstream error")
    ELSE Return([spreadsheetId |-> CreatedId,
                 properties |-> [title |-> IF title = Undefined
                                           THEN <<"U", "n", "t", "i", "t", "l", "e", "d">>
                                           ELSE TemplateText(title)],
                 spreadsheetUrl |-> SpreadsheetUrl(CreatedId)])

\* sheetsClient.createSpreadsheet({title, locale, timeZone})
createSpreadsheet(w, title) ==
    Effect(UpstreamCreate(w, title), <<[api |-> "spreadsheets.create", title |-> title]>>, w)

\* create-spreadsheet, from the answer of sheetsClient.createSpreadsheet on
CreateSpreadsheetReport(made) ==
    IF made.outcome.kind = "throw" THEN made
    ELSE Effect(Return(ToolText("spreadsheet created",
                    [title |-> made.outcome.value.properties.title,
                     spreadsheetId |-> made.outcome.value.spreadsheetId,
                     spreadsheetUrl |-> made.outcome.value.spreadsheetUrl])),
                made.requests, made.world)

\* handleToolCall(name = 'create-spreadsheet')
CreateSpreadsheet(a, w) == CreateSpreadsheetReport(createSpreadsheet(w, a.title))

(***************************************************************************)
(* SpecTools: one call of a tool or of a legacy handler, with all its      *)
(* arguments or with some left out, on a spreadsheet of one sheet.         *)
(***************************************************************************)
ToolWorlds ==
    {SheetWorld(<<>>), SheetWorld(<< <<<<"A", "b">>>> >>), SheetWorld(ExampleGrid),
     FailingWorld}

RangeTexts ==
    {SheetTitle \o <<"!", "A", "1", ":", "B", "2">>,
     SheetTitle \o <<"!", "A", "2", ":", "A", "3">>,
     <<"T", "!", "A", "1", ":", "A", "1">>}
ValuesArgs ==
    {Undefined, Arr(<<>>), Arr(<< <<Str(<<"x">>)>> >>),
     Arr(<< <<Str(<<"x">>), Str(<<"A", "b">>)>>, <<Str(<<"y">>)>> >>)}

ReadArgs ==
    {[spreadsheetId |-> i, range |-> r] :
        i \in {Undefined, Str(SpreadsheetId), Str(EditUrl(<<>>, NoFragment))},
        r \in {Undefined} \cup {Str(t) : t \in RangeTexts}}
WriteArgs ==
    {[spreadsheetId |-> a.spreadsheetId, range |-> a.range, values |-> v] :
        a \in ReadArgs, v \in ValuesArgs}

LegacyReadArgs ==
    {[spreadsheet_id |-> i, range |-> r] :
        i \in {Undefined, Str(<<>>), Str(SpreadsheetId)},
        r \in {Undefined, Str(<<>>)} \cup {Str(t) : t \in RangeTexts}}
LegacyBatchArgs ==
    {[spreadsheet_id |-> i, ranges |-> r] :
        i \in {Undefined, Str(<<>>), Str(SpreadsheetId)},
        r \in {Undefined, Arr(<<>>), Str(SheetTitle \o <<"!", "A", "1", ":", "B", "2">>)}
              \cup {Arr(<<Str(t)>>) : t \in RangeTexts}
              \cup {Arr(<<Str(t), Str(u)>>) : t, u \in RangeTexts}}
LegacyWriteArgs ==
    {[spreadsheet_id |-> a.spreadsheet_id, range |-> a.range, values |-> v] :
        a \in LegacyReadArgs, v \in ValuesArgs \cup {Str(<<"x">>)}}

InitTools ==
    /\ pc = "ready"
    /\ op = "none"
    /\ args = NoArgs
    /\ world \in ToolWorlds
    /\ result = NoResult
    /\ requests = <<>>

\* One call of a tool through the server, by which the spreadsheet may change
WriteToolCall(name, a, r) ==
    /\ pc' = "done"
    /\ op' = name
    /\ args' = a
    /\ result' = ServerTool(name, r.outcome)
    /\ requests' = requests \o r.requests
    /\ world' = r.world

\* One call of a tool of the legacy server, by which the spreadsheet may change
LegacyWriteToolCall(name, a, r) ==
    /\ pc' = "done"
    /\ op' = name
    /\ args' = a
    /\ result' = LegacyServerTool(r.outcome)
    /\ requests' = requests \o r.requests
    /\ world' = r.world

CallGetValues ==
    /\ pc = "ready"
    /\ \E a \in ReadArgs : WriteToolCall("get-values", a, GetValues(a, world))

CallUpdateValues ==
    /\ pc = "ready"
    /\ \E a \in WriteArgs : WriteToolCall("update-values", a, UpdateValues(a, world))

CallAppendValues ==
    /\ pc = "ready"
    /\ \E a \in WriteArgs : WriteToolCall("append-values", a, AppendValues(a, world))

CallClearValues ==
    /\ pc = "ready"
    /\ \E a \in ReadArgs : WriteToolCall("clear-values", a, ClearValues(a, world))

CallLegacyGetValues ==
    /\ pc = "ready"
    /\ \E a \in LegacyReadArgs :
          LegacyWriteToolCall("get_values", a, LegacyGetValues(a, world))

CallLegacyBatchGetValues ==
    /\ pc = "ready"
    /\ \E a \in LegacyBatchArgs :
          LegacyWriteToolCall("batch_get_values", a, LegacyBatchGetValues(a, world))

CallLegacyUpdateValues ==
    /\ pc = "ready"
    /\ \E a \in LegacyWriteArgs :
          LegacyWriteToolCall("update_values", a, LegacyUpdateValues(a, world))

CallLegacyAppendValues ==
    /\ pc = "ready"
    /\ \E a \in LegacyWriteArgs :
          LegacyWriteToolCall("append_values", a, LegacyAppendValues(a, world))

LegacySpreadsheetArgs ==
    {[spreadsheet_id |-> i, include_grid_data |-> g] :
        i \in {Undefined, Str(<<>>), Str(SpreadsheetId), Str(<<"x", "-", "_", "9">>)},
        g \in {Undefined, Bool(FALSE), Bool(TRUE)}}

CallLegacyGetSpreadsheet ==
    /\ pc = "ready"
    /\ \E a \in LegacySpreadsheetArgs :
          LegacyToolCall("get_spreadsheet", a, SheetHandlersGetSpreadsheet(a, world))

CallLegacyListSheets ==
    /\ pc = "ready"
    /\ \E a \in LegacySpreadsheetArgs :
          LegacyToolCall("list_sheets", a, SheetHandlersListSheets(a, world))

NextTools ==
    \/ CallGetValues \/ CallUpdateValues \/ CallAppendValues \/ CallClearValues
    \/ CallLegacyGetValues \/ CallLegacyBatchGetValues
    \/ CallLegacyUpdateValues \/ CallLegacyAppendValues
    \/ CallSearchValues \/ CallFindInColumn
    \/ CallGetSheetByGid \/ CallLegacyGetSheetByGid
    \/ CallLegacyGetSpreadsheet \/ CallLegacyListSheets

SpecTools == InitTools /\ [][NextTools]_vars

(***************************************************************************)
(* The access token of GoogleSheetsClient over time: the client keeps     *)
(* accessToken and tokenExpiry between its calls, the clock (Date.now(),   *)
(* in milliseconds) advances between and during them, and the token       *)
(* endpoint and the Sheets API answer each request with a status.         *)
(***************************************************************************)
TokenMargin == 300000
TickMs == 60000
MaxTicks == 8

StartTime == TickMs
LastTime == StartTime + MaxTicks * TickMs

\* the constructor: this.accessToken = null; this.tokenExpiry = null
NewClient == [accessToken |-> Null, tokenExpiry |-> Null]

\* What the token endpoint answers: 200 with a token and its life in
\* seconds, another status, or a request that fails (req.on('error')).
ExpiresIn == {0, 300, 360, 600}
TokenTexts == {<<"t", "1">>, <<"t", "2">>}
TokenAnswers ==
    {[kind |-> "response", statusCode |-> 200, access_token |-> Str(t), expires_in |-> e] :
        t \in TokenTexts, e \in ExpiresIn}
    \cup {[kind |-> "response", statusCode |-> 401], [kind |-> "error"]}

\* The test of the cached token without the safety margin.
TokenCached_NoMargin(c, now) ==
    /\ Truthy(c.accessToken)
    /\ Truthy(c.tokenExpiry)
    /\ now < c.tokenExpiry.v

\* this.accessToken && this.tokenExpiry && Date.now() < this.tokenExpiry - 300000
TokenCached(c, now) ==
    /\ Truthy(c.accessToken)
    /\ Truthy(c.tokenExpiry)
    /\ now < c.tokenExpiry.v - TokenMargin

\* getAccessToken() forgetting the cached token when the exchange fails.
getAccessToken_ClearsOnFailure(c, now, answer, arrival) ==
    IF TokenCached(c, now)
    THEN [outcome |-> Return(c.accessToken), requests |-> <<>>, client |-> c]
    ELSE IF answer.kind = "response" /\ answer.statusCode = 200
    THEN [outcome |-> Return(answer.access_token), requests |-> <<TokenRequest>>,
          client |-> [accessToken |-> answer.access_token,
                      tokenExpiry |-> Num(arrival + answer.expires_in * 1000)]]
    ELSE [outcome |-> Throw("Token request failed"), requests |-> <<TokenRequest>>,
          client |-> NewClient]

\* getAccessToken() of the client c at the time now; answer is what the token
\* endpoint answers, arrival the time its answer is handled at.
getAccessToken(c, now, answer, arrival) ==
    IF TokenCached(c, now)
    THEN [outcome |-> Return(c.accessToken), requests |-> <<>>, client |-> c]
    ELSE IF answer.kind = "response" /\ answer.statusCode = 200
    THEN [outcome |-> Return(answer.access_token), requests |-> <<TokenRequest>>,
          client |-> [accessToken |-> answer.access_token,
                      tokenExpiry |-> Num(arrival + answer.expires_in * 1000)]]
    ELSE [outcome |-> Throw("Token request failed"), requests |-> <<TokenRequest>>,
          client |-> c]

\* What the Sheets API answers to a request
ApiAnswers ==
    {[kind |-> "response", statusCode |-> 200,
      data |-> [spreadsheetId |-> SpreadsheetId,
                sheets |-> <<[properties |-> SheetProperties(0, 0)]>>]],
     [kind |-> "response", statusCode |-> 404, data |-> [message |-> "Requested entity was not found."]],
     [kind |-> "response", statusCode |-> 500, data |-> [message |-> "Internal error"]],
     [kind |-> "error"]}

\* The https request sent a second time when the answer is not a 200.
RequestWithToken_Retry(token, api, verb, path, answer) ==
    IF token.outcome.kind = "throw" THEN token
    ELSE [outcome |-> IF answer.kind = "response" /\ answer.statusCode = 200
                      THEN Return(answer.data)
                      ELSE IF answer.kind = "response"
                      THEN Throw([failed |-> verb, path |-> path,
                                  statusCode |-> answer.statusCode, data |-> answer.data])
                      ELSE Throw("request error"),
          requests |-> token.requests
                       \o (IF answer.kind = "response" /\ answer.statusCode = 200
                           THEN <<[api |-> api, path |-> path, bearer |-> token.outcome.value]>>
                           ELSE <<[api |-> api, path |-> path, bearer |-> token.outcome.value],
                                  [api |-> api, path |-> path, bearer |-> token.outcome.value]>>),
          client |-> token.client]

\* An https request with the bearer token, from the token on: resolved on
\* status 200, rejected with the method, path, status and body otherwise
RequestWithToken(token, api, verb, path, answer) ==
    IF token.outcome.kind = "throw" THEN token
    ELSE [outcome |-> IF answer.kind = "response" /\ answer.statusCode = 200
                      THEN Return(answer.data)
                      ELSE IF answer.kind = "response"
                      THEN Throw([failed |-> verb, path |-> path,
                                  statusCode |-> answer.statusCode, data |-> answer.data])
                      ELSE Throw("request error"),
          requests |-> token.requests
                       \o <<[api |-> api, path |-> path, bearer |-> token.outcome.value]>>,
          client |-> token.client]

\* get(path) from the token on
GetWithToken(token, path, answer) ==
    RequestWithToken(token, "https.get", "GET", path, answer)

\* GoogleSheetsClient.get(path)
ClientGet(c, now, tokenAnswer, arrival, path, answer) ==
    GetWithToken(getAccessToken(c, now, tokenAnswer, arrival), path, answer)

\* what a method of the client c resolves to: the envelope of what get did
ClientEnveloped(got) ==
    [outcome |-> Return(Envelope(got.outcome)), requests |-> got.requests,
     client |-> got.client]

\* GoogleSheetsClient.getSpreadsheet(spreadsheetId) of the client c
ClientGetSpreadsheet(c, now, tokenAnswer, arrival, spreadsheetId, answer) ==
    ClientEnveloped(ClientGet(c, now, tokenAnswer, arrival,
                              SpreadsheetsPath \o spreadsheetId, answer))

\* GoogleSheetsClient.getValues(spreadsheetId, range) of the client c
ClientGetValues(c, now, tokenAnswer, arrival, spreadsheetId, range, answer) ==
    ClientEnveloped(ClientGet(c, now, tokenAnswer, arrival,
                              ValuesPath(Str(spreadsheetId), Str(range)), answer))

\* GoogleSheetsClient.batchGetValues(spreadsheetId, ranges) of the client c
ClientBatchGetValues(c, now, tokenAnswer, arrival, spreadsheetId, ranges, answer) ==
    ClientEnveloped(ClientGet(c, now, tokenAnswer, arrival,
        SpreadsheetsPath \o spreadsheetId
            \o <<"/", "v", "a", "l", "u", "e", "s", ":", "b", "a", "t", "c", "h", "G", "e", "t", "?">>
            \o RangesQuery(ranges), answer))

\* GoogleSheetsClient.put(path, body)
ClientPut(c, now, tokenAnswer, arrival, path, answer) ==
    RequestWithToken(getAccessToken(c, now, tokenAnswer, arrival),
                     "https.request PUT", "PUT", path, answer)

\* GoogleSheetsClient.updateValues(spreadsheetId, range, values) of the client c
ClientUpdateValues(c, now, tokenAnswer, arrival, spreadsheetId, range, answer) ==
    ClientEnveloped(ClientPut(c, now, tokenAnswer, arrival,
                              ValuesPath(Str(spreadsheetId), Str(range)) \o UserEntered,
                              answer))

\* GoogleSheetsClient.appendValues(spreadsheetId, range, values) of the client
\* c: its own POST, every failure of it resolved as {success: false, error}
ClientAppendValues(c, now, tokenAnswer, arrival, spreadsheetId, range, answer) ==
    ClientEnveloped(RequestWithToken(getAccessToken(c, now, tokenAnswer, arrival),
        "https.request POST", "POST",
        ValuesPath(Str(spreadsheetId), Str(range)) \o <<":", "a", "p", "p", "e", "n", "d">>
            \o UserEntered,
        answer))

\* listSheets of the client c, from the result of getSpreadsheet on
ClientSheetsListed(got) ==
    IF ~got.outcome.value.success THEN got
    ELSE [outcome |-> Return(Success([k \in 1..Len(got.outcome.value.data.sheets) |->
                                         SheetSummary(got.outcome.value.data.sheets[k])])),
          requests |-> got.requests, client |-> got.client]

\* GoogleSheetsClient.listSheets(spreadsheetId) of the client c
ClientListSheets(c, now, tokenAnswer, arrival, spreadsheetId, answer) ==
    ClientSheetsListed(ClientGetSpreadsheet(c, now, tokenAnswer, arrival, spreadsheetId, answer))

Arrivals(now) == {t \in {now, now + TickMs} : t <= LastTime}

InitToken ==
    /\ pc = "ready"
    /\ op = "none"
    /\ args = NoArgs
    /\ world = [now |-> StartTime, client |-> NewClient, exchanges |-> 0]
    /\ result = NoResult
    /\ requests = <<>>

\* One call on the client: args keeps the client and the clock as they are
\* at the call and what the token endpoint would answer, r is what the call
\* did, arrival the time it ends at.
ClientCall(name, tokenAnswer, r, arrival) ==
    /\ pc' = "done"
    /\ op' = name
    /\ args' = [client |-> world.client, now |-> world.now, tokenAnswer |-> tokenAnswer]
    /\ result' = r.outcome
    /\ requests' = r.requests
    /\ world' = [now |-> IF r.requests = <<>> THEN world.now ELSE arrival,
                 client |-> r.client,
                 exchanges |-> world.exchanges
                               + Cardinality({k \in 1..Len(r.requests) :
                                                 r.requests[k] = TokenRequest})]

CallGetAccessToken ==
    /\ pc = "ready"
    /\ \E answer \in TokenAnswers, arrival \in Arrivals(world.now) :
          ClientCall("getAccessToken", answer,
                     getAccessToken(world.client, world.now, answer, arrival), arrival)

CallClientGetSpreadsheet ==
    /\ pc = "ready"
    /\ \E tokenAnswer \in TokenAnswers, arrival \in Arrivals(world.now),
          answer \in ApiAnswers :
          ClientCall("getSpreadsheet", tokenAnswer,
                     ClientGetSpreadsheet(world.client, world.now, tokenAnswer, arrival,
                                          SpreadsheetId, answer), arrival)

\* Time passes until the next call
Advance ==
    /\ pc = "done"
    /\ world.now + TickMs <= LastTime
    /\ pc' = "ready"
    /\ world' = [world EXCEPT !.now = @ + TickMs]
    /\ UNCHANGED <<op, args, result, requests>>

NextToken == CallGetAccessToken \/ CallClientGetSpreadsheet \/ Advance

SpecToken == InitToken /\ [][NextToken]_vars

(***************************************************************************)
(* SpecClient: the operations of GoogleSheetsClient, called one after the *)
(* other on one client.                                                   *)
(***************************************************************************)
MaxClientTicks == 2

ClientRanges == {SheetTitle \o <<"!", "A", "1", ":", "B", "2">>}

\* One operation of the client: args keeps the client and the clock as they
\* are at the call and what the token endpoint and the API would answer.
ApiCall(name, tokenAnswer, answer, r, arrival) ==
    /\ pc' = "done"
    /\ op' = name
    /\ args' = [client |-> world.client, now |-> world.now,
                tokenAnswer |-> tokenAnswer, answer |-> answer]
    /\ result' = r.outcome
    /\ requests' = r.requests
    /\ world' = [now |-> IF r.requests = <<>> THEN world.now ELSE arrival,
                 client |-> r.client,
                 exchanges |-> world.exchanges
                               + Cardinality({k \in 1..Len(r.requests) :
                                                 r.requests[k] = TokenRequest})]

CallOpGetSpreadsheet ==
    /\ pc = "ready"
    /\ \E tokenAnswer \in TokenAnswers, arrival \in Arrivals(world.now),
          answer \in ApiAnswers :
          ApiCall("getSpreadsheet", tokenAnswer, answer,
                  ClientGetSpreadsheet(world.client, world.now, tokenAnswer, arrival,
                                       SpreadsheetId, answer), arrival)

CallOpListSheets ==
    /\ pc = "ready"
    /\ \E tokenAnswer \in TokenAnswers, arrival \in Arrivals(world.now),
          answer \in ApiAnswers :
          ApiCall("listSheets", tokenAnswer, answer,
                  ClientListSheets(world.client, world.now, tokenAnswer, arrival,
                                   SpreadsheetId, answer), arrival)

CallOpGetValues ==
    /\ pc = "ready"
    /\ \E tokenAnswer \in TokenAnswers, arrival \in Arrivals(world.now),
          answer \in ApiAnswers, range \in ClientRanges :
          ApiCall("getValues", tokenAnswer, answer,
                  ClientGetValues(world.client, world.now, tokenAnswer, arrival,
                                  SpreadsheetId, range, answer), arrival)

CallOpBatchGetValues ==
    /\ pc = "ready"
    /\ \E tokenAnswer \in TokenAnswers, arrival \in Arrivals(world.now),
          answer \in ApiAnswers, range \in ClientRanges :
          ApiCall("batchGetValues", tokenAnswer, answer,
                  ClientBatchGetValues(world.client, world.now, tokenAnswer, arrival,
                                       SpreadsheetId, <<Str(range), Str(range)>>, answer),
                  arrival)

CallOpUpdateValues ==
    /\ pc = "ready"
    /\ \E tokenAnswer \in TokenAnswers, arrival \in Arrivals(world.now),
          answer \in ApiAnswers, range \in ClientRanges :
          ApiCall("updateValues", tokenAnswer, answer,
                  ClientUpdateValues(world.client, world.now, tokenAnswer, arrival,
                                     SpreadsheetId, range, answer), arrival)

CallOpAppendValues ==
    /\ pc = "ready"
    /\ \E tokenAnswer \in TokenAnswers, arrival \in Arrivals(world.now),
          answer \in ApiAnswers, range \in ClientRanges :
          ApiCall("appendValues", tokenAnswer, answer,
                  ClientAppendValues(world.client, world.now, tokenAnswer, arrival,
                                     SpreadsheetId, range, answer), arrival)

\* Time passes until the next operation
AdvanceClient ==
    /\ pc = "done"
    /\ world.now + TickMs <= StartTime + MaxClientTicks * TickMs
    /\ pc' = "ready"
    /\ world' = [world EXCEPT !.now = @ + TickMs]
    /\ UNCHANGED <<op, args, result, requests>>

NextClient ==
    \/ CallOpGetSpreadsheet \/ CallOpListSheets \/ CallOpGetValues
    \/ CallOpBatchGetValues \/ CallOpUpdateValues \/ CallOpAppendValues
    \/ AdvanceClient

SpecClient == InitToken /\ [][NextClient]_vars

(***************************************************************************)
(* The tool registry (tools/index.js): the tool modules in registration   *)
(* order, the definitions they give and the dispatch of a call.  A module  *)
(* is the names its getToolDefinitions lists and the names its             *)
(* handleToolCall has a branch for; the handler of a module returns null   *)
(* for every other name.                                                   *)
(***************************************************************************)
spreadsheetTools ==
    [module |-> "spreadsheet",
     defines |-> <<"create-spreadsheet", "get-spreadsheet">>,
     handles |-> {"create-spreadsheet", "get-spreadsheet"}]
valuesTools ==
    [module |-> "values",
     defines |-> <<"get-values", "update-values", "append-values", "clear-values">>,
     handles |-> {"get-values", "update-values", "append-values", "clear-values"}]
sheetTools ==
    [module |-> "sheet",
     defines |-> <<"list-sheets", "get-sheet-by-gid", "get-sheet-info", "get-sheet-preview">>,
     handles |-> {"list-sheets", "get-sheet-by-gid", "get-sheet-info", "get-sheet-preview"}]
\* The search module with a branch for a name of the values module as well.
searchTools_AlsoGetValues ==
    [module |-> "search",
     defines |-> <<"search-values", "find-in-column">>,
     handles |-> {"search-values", "find-in-column", "get-values"}]

searchTools ==
    [module |-> "search",
     defines |-> <<"search-values", "find-in-column">>,
     handles |-> {"search-values", "find-in-column"}]

toolModules == <<spreadsheetTools, valuesTools, sheetTools, searchTools>>

\* toolModules.flatMap((mod) => mod.getToolDefinitions()), by name
RECURSIVE getAllToolDefinitions(_)
getAllToolDefinitions(mods) ==
    IF mods = <<>> THEN <<>> ELSE mods[1].defines \o getAllToolDefinitions(Tail(mods))

\* mod.handleToolCall(name, args, sheetsClient): the result of the branch of
\* the name, what that branch throws (fails), or null without a branch
ModuleHandleToolCall(mod, name, fails) ==
    IF name \notin mod.handles THEN Return(Null)
    ELSE IF fails THEN Throw([thrownBy |-> mod.module, tool |-> name])
    ELSE Return([handledBy |-> mod.module, tool |-> name])

\* the loop of handleToolCall from the module k on, handled being what the
\* module k returned or threw
RECURSIVE DispatchFrom(_, _, _, _)
\* The loop going on to the later modules after a module has answered.
DispatchNext_KeepsTrying(mods, k, name, fails, handled) ==
    IF handled.kind = "throw" THEN [outcome |-> handled, invoked |-> <<mods[k].module>>]
    ELSE IF DispatchFrom(mods, k + 1, name, fails).outcome.kind = "throw"
            /\ handled.value # Null
    THEN [outcome |-> handled,
          invoked |-> <<mods[k].module>> \o DispatchFrom(mods, k + 1, name, fails).invoked]
    ELSE [outcome |-> DispatchFrom(mods, k + 1, name, fails).outcome,
          invoked |-> <<mods[k].module>> \o DispatchFrom(mods, k + 1, name, fails).invoked]

DispatchNext(mods, k, name, fails, handled) ==
    IF handled.kind = "throw" THEN [outcome |-> handled, invoked |-> <<mods[k].module>>]
    ELSE IF handled.value # Null
    THEN [outcome |-> handled, invoked |-> <<mods[k].module>>]
    ELSE [outcome |-> DispatchFrom(mods, k + 1, name, fails).outcome,
          invoked |-> <<mods[k].module>> \o DispatchFrom(mods, k + 1, name, fails).invoked]

DispatchFrom(mods, k, name, fails) ==
    IF k > Len(mods)
    THEN [outcome |-> Throw([unknownTool |-> name]), invoked |-> <<>>]
    ELSE DispatchNext(mods, k, name, fails, ModuleHandleToolCall(mods[k], name, fails))

\* handleToolCall(name, args, sheetsClient) of the registry
handleToolCall(mods, name, fails) == DispatchFrom(mods, 1, name, fails)

(***************************************************************************)
(* SpecDispatch: one call dispatched over a registry: the registry of the  *)
(* server, or another list of modules, among them a module that has a      *)
(* branch for names of other modules.                                      *)
(***************************************************************************)
MaxModules == 4

shadowTools ==
    [module |-> "shadow",
     defines |-> <<"get-values", "find-in-column">>,
     handles |-> {"get-values", "find-in-column"}]

Registries ==
    UNION {[1..n -> {spreadsheetTools, valuesTools, sheetTools, searchTools, shadowTools}] :
              n \in 0..MaxModules}

ToolNameArgs ==
    Range(getAllToolDefinitions(toolModules))
    \cup {"get_values", "get-sheet", "", "delete-sheet"}

InitDispatch ==
    /\ pc = "ready"
    /\ op = "none"
    /\ args = NoArgs
    /\ world \in {[modules |-> m] : m \in Registries}
    /\ result = NoResult
    /\ requests = <<>>

CallHandleToolCall ==
    /\ pc = "ready"
    /\ \E name \in ToolNameArgs, fails \in BOOLEAN :
          /\ pc' = "done"
          /\ op' = "handleToolCall"
          /\ args' = [name |-> name, fails |-> fails]
          /\ result' = handleToolCall(world.modules, name, fails)
          /\ UNCHANGED <<world, requests>>

NextDispatch == CallHandleToolCall

SpecDispatch == InitDispatch /\ [][NextDispatch]_vars

(***************************************************************************)
(* The server's tool callback over all its tools: handleToolCall of the    *)
(* registry with the modules' branches, inside the callback's try/catch.   *)
(***************************************************************************)
\* a handler's result with the spreadsheet it leaves as it was
Reading(done, w) == Effect(done.outcome, done.requests, w)

\* The branch of the module that handles the name
ToolBranch(name, a, w) ==
    CASE name = "create-spreadsheet" -> CreateSpreadsheet(a, w)
      [] name = "get-spreadsheet" -> GetSpreadsheet(a, w)
      [] name = "get-values" -> GetValues(a, w)
      [] name = "update-values" -> UpdateValues(a, w)
      [] name = "append-values" -> AppendValues(a, w)
      [] name = "clear-values" -> ClearValues(a, w)
      [] name = "list-sheets" -> ListSheets(a, w)
      [] name = "get-sheet-by-gid" -> Reading(GetSheetByGid(a, w), w)
      [] name = "get-sheet-info" -> GetSheetInfo(a, w)
      [] name = "get-sheet-preview" -> GetSheetPreview(a, w)
      [] name = "search-values" -> Reading(SearchValues(a, w), w)
      [] name = "find-in-column" -> Reading(FindInColumn(a, w), w)

\* handleToolCall(name, args, sheetsClient) of tools/index.js on the
\* registry of the server
ServerHandleToolCall(name, a, w) ==
    IF handleToolCall(toolModules, name, FALSE).outcome.kind = "throw"
    THEN Effect(Throw([unknownTool |-> name]), <<>>, w)
    ELSE ToolBranch(name, a, w)

(***************************************************************************)
(* SpecServer: one call of any tool through the server's callback, the     *)
(* spreadsheet given by its id or by a URL, or not at all.                 *)
(***************************************************************************)
TwoSheets ==
    [status |-> "ok", id |-> SpreadsheetId,
     sheets |-> <<[properties |-> SheetProperties(0, 0), grid |-> ExampleGrid],
                  [properties |-> SheetProperties(7, 1), grid |-> << <<<<"A", "b">>>> >>]>>]

ServerWorlds == ToolWorlds \cup {TwoSheets}

\* The spreadsheet of the model by its id and by URLs of it
UrlForms ==
    {Str(EditUrl(<<>>, NoFragment)),
     Str(EditUrl(<<Pair(GidName, <<"7">>)>>, NoFragment)),
     Str(EditUrl(<<>>, GidFragment(<<"0">>, <<>>)))}
IdForms == {Str(SpreadsheetId)} \cup UrlForms
IdArgs == IdForms \cup {Undefined, Str(<<"x", "-", "_", "9">>), Str(HttpsPrefix \o Host \o <<"/">>)}

SheetNameArgs == {Str(SheetTitle), Str(<<"S", "0">>), Str(<<"T">>)}

ServerArgs(name) ==
    CASE name = "create-spreadsheet" ->
            {[title |-> t] : t \in {Undefined, Str(<<"B", "o", "o", "k">>)}}
      [] name = "get-spreadsheet" ->
            {[spreadsheetId |-> i, includeGridData |-> g] :
                i \in IdArgs, g \in {Undefined, Bool(TRUE)}}
      [] name \in {"get-values", "clear-values"} ->
            {[spreadsheetId |-> i, range |-> r] :
                i \in IdArgs, r \in {Undefined} \cup {Str(t) : t \in RangeTexts}}
      [] name \in {"update-values", "append-values"} ->
            {[spreadsheetId |-> i, range |-> Str(r), values |-> v] :
                i \in IdArgs, r \in RangeTexts, v \in ValuesArgs}
      [] name = "list-sheets" -> {[spreadsheetId |-> i] : i \in IdArgs}
      [] name = "get-sheet-by-gid" ->
            {[spreadsheetId |-> i, url |-> Undefined, gid |-> g] :
                i \in IdArgs, g \in {Undefined, Str(<<"0">>), Str(<<"7">>), Str(<<"5">>)}}
      [] name = "get-sheet-info" ->
            {[spreadsheetId |-> i, sheetName |-> s] : i \in IdArgs, s \in SheetNameArgs}
      [] name = "get-sheet-preview" ->
            {[spreadsheetId |-> i, sheetName |-> s, numRows |-> n] :
                i \in IdArgs, s \in SheetNameArgs, n \in NumRowsArgs}
      [] name = "search-values" ->
            {[spreadsheetId |-> i, sheetName |-> s, searchText |-> t,
              matchType |-> m, maxResults |-> Undefined] :
                i \in IdArgs, s \in SheetNameArgs,
                t \in {Undefined, Str(<<"a">>), Str(<<"c">>)},
                m \in {Undefined, Str(ExactText)}}
      [] name = "find-in-column" ->
            {[spreadsheetId |-> i, sheetName |-> s, column |-> Str(<<"A">>),
              searchText |-> t, matchType |-> m] :
                i \in IdArgs, s \in SheetNameArgs,
                t \in {Undefined, Str(<<"a">>), Str(<<"c">>)},
                m \in {Undefined, Str(ExactText)}}
      [] OTHER -> {[spreadsheetId |-> Str(SpreadsheetId)]}

InitServer ==
    /\ pc = "ready"
    /\ op = "none"
    /\ args = NoArgs
    /\ world \in ServerWorlds
    /\ result = NoResult
    /\ requests = <<>>

\* A call of one of the tools the server registers
CallTool ==
    /\ pc = "ready"
    /\ \E name \in Range(getAllToolDefinitions(toolModules)) :
          \E a \in ServerArgs(name) :
              WriteToolCall(name, a, ServerHandleToolCall(name, a, world))

\* Names that neither server registers
UnknownNames == ToolNameArgs \ (Range(getAllToolDefinitions(toolModules)) \cup {"get_values"})

\* A call of handleToolCall, inside the callback, with a name that is not
\* registered
CallUnknownTool ==
    /\ pc = "ready"
    /\ \E name \in UnknownNames :
          \E a \in ServerArgs(name) :
              WriteToolCall(name, a, ServerHandleToolCall(name, a, world))

\* A call of one of the tools the legacy server registers
CallLegacyTool ==
    \/ CallLegacyGetSpreadsheet \/ CallLegacyListSheets
    \/ CallLegacyGetValues \/ CallLegacyBatchGetValues
    \/ CallLegacyUpdateValues \/ CallLegacyAppendValues
    \/ CallLegacyGetSheetByGid

NextServer == CallTool \/ CallUnknownTool \/ CallLegacyTool

SpecServer == InitServer /\ [][NextServer]_vars

(***************************************************************************)
(* The resource of the server (resources): handleResourceRead, and         *)
(* SpecResource, one read of a resource URI.                               *)
(***************************************************************************)
ResourcePrefix ==
    <<"r", "e", "s", "o", "u", "r", "c", "e", ":", "/", "/", "m", "c", "p", "-", "s", "h", "e", "e", "t", "s", "/", "s", "p", "r", "e", "a", "d", "s", "h", "e", "e", "t", "/">>
OtherNamespace ==
    <<"r", "e", "s", "o", "u", "r", "c", "e", ":", "/", "/", "o", "t", "h", "e", "r", "/", "s", "p", "r", "e", "a", "d", "s", "h", "e", "e", "t", "/">>

\* JS line terminators, which "." of a regular expression does not match
LineTerminators == {"\n", "\r"}

\* uri.match(/^resource:\/\/mcp-sheets\/spreadsheet\/(.+)$/): group 1, the
\* rest of the URI when it is not empty and holds no line terminator
ResourceMatch(uri) ==
    IF /\ StartsWith(uri, ResourcePrefix)
       /\ Len(uri) > Len(ResourcePrefix)
       /\ \A k \in (Len(ResourcePrefix) + 1)..Len(uri) : uri[k] \notin LineTerminators
    THEN [matched |-> TRUE, group1 |-> SubSeq(uri, Len(ResourcePrefix) + 1, Len(uri))]
    ELSE [matched |-> FALSE]

\* The metadata object of handleResourceRead; JSON.stringify leaves out the
\* sheetType the API did not give
ResourceMetadata(spreadsheet) ==
    [spreadsheetId |-> spreadsheet.spreadsheetId,
     title |-> spreadsheet.properties.title,
     locale |-> spreadsheet.properties.locale,
     timeZone |-> spreadsheet.properties.timeZone,
     url |-> spreadsheet.spreadsheetUrl,
     sheets |-> [k \in 1..Len(spreadsheet.sheets) |->
                    [sheetId |-> spreadsheet.sheets[k].properties.sheetId,
                     title |-> spreadsheet.sheets[k].properties.title,
                     index |-> spreadsheet.sheets[k].properties.index,
                     gridProperties |-> spreadsheet.sheets[k].properties.gridProperties]]]

\* handleResourceRead, from the answer of sheetsClient.getSpreadsheet on
ResourceContents(uri, got) ==
    IF got.outcome.kind = "throw" THEN got
    ELSE Effect(Return([contents |-> <<[uri |-> uri,
                                        mimeType |-> "application/json",
                                        text |-> ResourceMetadata(got.outcome.value)]>>]),
                got.requests, got.world)

\* A read that fetches the spreadsheet with its grid data
handleResourceRead_GridData(uri, w) ==
    IF ResourceMatch(uri).matched
    THEN ResourceContents(uri, getSpreadsheet(w, ResourceMatch(uri).group1, TRUE))
    ELSE Effect(Throw([unknownResourceUri |-> uri]), <<>>, w)

\* handleResourceRead(uri, sheetsClient)
handleResourceRead(uri, w) ==
    IF ResourceMatch(uri).matched
    THEN ResourceContents(uri, getSpreadsheet(w, ResourceMatch(uri).group1, FALSE))
    ELSE Effect(Throw([unknownResourceUri |-> uri]), <<>>, w)

ResourceIds ==
    {SpreadsheetId, <<"x", "-", "_", "9">>, <<"{", "i", "d", "}">>,
     SpreadsheetId \o <<"/", "e", "d", "i", "t">>, <<"a">>, <<"a", "\n", "B">>, <<>>}
ResourceUris ==
    {ResourcePrefix \o i : i \in ResourceIds}
    \cup {OtherNamespace \o i : i \in ResourceIds}
    \cup {SubSeq(ResourcePrefix, 1, Len(ResourcePrefix) - 1), <<"x">> \o ResourcePrefix \o SpreadsheetId,
          SpreadsheetUrl(SpreadsheetId), SpreadsheetId, <<>>}

ResourceWorlds == ServerWorlds \cup SpreadsheetWorlds

InitResource ==
    /\ pc = "ready"
    /\ op = "none"
    /\ args = NoArgs
    /\ world \in ResourceWorlds
    /\ result = NoResult
    /\ requests = <<>>

\* A read of a resource URI
CallResourceRead ==
    /\ pc = "ready"
    /\ \E uri \in ResourceUris :
          /\ pc' = "done"
          /\ op' = "handleResourceRead"
          /\ args' = [uri |-> uri]
          /\ result' = handleResourceRead(uri, world).outcome
          /\ requests' = requests \o handleResourceRead(uri, world).requests
          /\ world' = handleResourceRead(uri, world).world

NextResource == CallResourceRead

SpecResource == InitResource /\ [][NextResource]_vars

(***************************************************************************)
(* SpecRoundTrip: update-values of a 2D array to a range, then get-values  *)
(* of the same range.                                                      *)
(***************************************************************************)
FullGrid == << <<<<"p">>, <<"q">>>>, <<<<"r">>, <<"s">>>>, <<<<"t">>, <<"u">>>> >>
RoundTripWorlds == {SheetWorld(<<>>), SheetWorld(ExampleGrid), SheetWorld(FullGrid)}

RoundTripRanges ==
    {SheetTitle \o <<"!", "A", "1", ":", "A", "1">>,
     SheetTitle \o <<"!", "A", "1", ":", "B", "2">>,
     SheetTitle \o <<"!", "A", "2", ":", "B", "3">>,
     SheetTitle \o <<"!", "A", "1", ":", "B", "3">>}

RoundTripValues ==
    {Arr(<<>>),
     Arr(<< <<Str(<<"x">>)>> >>),
     Arr(<< <<Str(<<"x">>), Str(<<"y">>)>> >>),
     Arr(<< <<Str(<<"x">>)>>, <<Str(<<"y">>)>> >>),
     Arr(<< <<Str(<<"x">>), Num(7)>>, <<Str(<<"z">>), Str(<<"w">>)>> >>),
     Arr(<< <<Str(<<"x">>)>>, <<Str(<<"y">>), Str(<<"z">>)>> >>),
     Arr(<< <<Str(<<"x">>), Str(<<"y">>)>>, <<Str(<<"z">>)>> >>),
     Arr(<< <<Str(<<>>)>> >>),
     Arr(<< <<Str(<<"x">>), Str(<<>>)>> >>),
     Arr(<< <<Str(<<"x">>)>>, <<Str(<<>>)>> >>),
     Arr(<< <<Str(<<>>), Str(<<"y">>)>> >>)}

InitRoundTrip ==
    /\ pc = "ready"
    /\ op = "none"
    /\ args = NoArgs
    /\ world \in RoundTripWorlds
    /\ result = NoResult
    /\ requests = <<>>

\* update-values of the array to the range
CallWrite ==
    /\ pc = "ready"
    /\ \E r \in RoundTripRanges, v \in RoundTripValues :
          LET a == [spreadsheetId |-> Str(SpreadsheetId), range |-> Str(r), values |-> v]
          IN /\ pc' = "written"
             /\ op' = "update-values"
             /\ args' = a
             /\ result' = ServerTool("update-values", UpdateValues(a, world).outcome)
             /\ requests' = requests \o UpdateValues(a, world).requests
             /\ world' = UpdateValues(a, world).world

\* get-values of the range just written to
CallReadBack ==
    /\ pc = "written"
    /\ pc' = "done"
    /\ op' = "get-values"
    /\ args' = [spreadsheetId |-> args.spreadsheetId, range |-> args.range,
                values |-> args.values, updated |-> result]
    /\ result' = ServerTool("get-values",
                            GetValues([spreadsheetId |-> args.spreadsheetId,
                                       range |-> args.range], world).outcome)
    /\ requests' = requests \o GetValues([spreadsheetId |-> args.spreadsheetId,
                                          range |-> args.range], world).requests
    /\ world' = GetValues([spreadsheetId |-> args.spreadsheetId,
                           range |-> args.range], world).world

NextRoundTrip == CallWrite \/ CallReadBack

SpecRoundTrip == InitRoundTrip /\ [][NextRoundTrip]_vars

(***************************************************************************)
(* SpecRace: calls of getAccessToken that overlap.  A call tests the cache *)
(* and sends its token request in one turn of the event loop; the          *)
(* response is handled in a later turn (res.on('end')), and other calls    *)
(* and responses may come in between.  Every 200 response carries a token  *)
(* of its own.                                                             *)
(***************************************************************************)
MaxCallers == 2
MaxExchanges == 3
MaxRaceTicks == 3

Callers == 1..MaxCallers
LastRaceTime == StartTime + MaxRaceTicks * TickMs

\* What the token endpoint answers an exchange with: 200 and the life of
\* the token in seconds, or no token
RaceAnswers ==
    {[kind |-> "response", statusCode |-> 200, expires_in |-> e] : e \in {300, 600}}
    \cup {[kind |-> "response", statusCode |-> 401], [kind |-> "error"]}

\* The token of the n-th 200 response
IssuedToken(n) == Str(<<"t">> \o Decimal(n))

\* A response handler that stores the token and leaves the expiry
StoreToken_TokenOnly(c, token, expires_in, now) ==
    [accessToken |-> token, tokenExpiry |-> c.tokenExpiry]

\* A response handler that stores nothing
StoreToken_Nothing(c, token, expires_in, now) == c

\* this.accessToken = parsed.access_token;
\* this.tokenExpiry = Date.now() + (parsed.expires_in * 1000)
StoreToken(c, token, expires_in, now) ==
    [accessToken |-> token, tokenExpiry |-> Num(now + expires_in * 1000)]

IdleCall == [phase |-> "idle", value |-> Null]

InitRace ==
    /\ pc = "serving"
    /\ op = "none"
    /\ args = NoArgs
    /\ result = NoResult
    /\ requests = <<>>
    /\ world = [now |-> StartTime, client |-> NewClient,
                calls |-> [i \in Callers |-> IdleCall],
                granted |-> <<>>]

\* getAccessToken() up to its return of the cached token or of the promise
BeginGetAccessToken(i) ==
    /\ world.calls[i].phase = "idle"
    /\ op' = "getAccessToken"
    /\ args' = [caller |-> i]
    /\ UNCHANGED pc
    /\ IF TokenCached(world.client, world.now)
       THEN /\ world' = [world EXCEPT !.calls[i] = [phase |-> "returned",
                                                    value |-> world.client.accessToken]]
            /\ result' = Return(world.client.accessToken)
            /\ UNCHANGED requests
       ELSE /\ Len(requests) < MaxExchanges
            /\ world' = [world EXCEPT !.calls[i] = [phase |-> "waiting", value |-> Null]]
            /\ result' = NoResult
            /\ requests' = Append(requests, TokenRequest)

\* res.on('end') of the call's request, and req.on('error')
HandleTokenResponse(i) ==
    /\ world.calls[i].phase = "waiting"
    /\ op' = "res.on('end')"
    /\ UNCHANGED <<pc, requests>>
    /\ \E answer \in RaceAnswers :
          /\ args' = [caller |-> i, answer |-> answer]
          /\ IF answer.kind = "response" /\ answer.statusCode = 200
             THEN /\ world' =
                       [world EXCEPT
                          !.client = StoreToken(world.client,
                                                IssuedToken(Len(world.granted) + 1),
                                                answer.expires_in, world.now),
                          !.calls[i] =
                              [phase |-> "returned",
                               value |-> StoreToken(world.client,
                                                    IssuedToken(Len(world.granted) + 1),
                                                    answer.expires_in, world.now).accessToken],
                          !.granted = Append(@, [token |-> IssuedToken(Len(world.granted) + 1),
                                                 expiry |-> world.now + answer.expires_in * 1000])]
                  /\ result' = Return(StoreToken(world.client,
                                                 IssuedToken(Len(world.granted) + 1),
                                                 answer.expires_in, world.now).accessToken)
             ELSE /\ world' = [world EXCEPT !.calls[i] = [phase |-> "rejected", value |-> Null]]
                  /\ result' = Throw("Token request failed")

\* The caller has its token or its error and may call again
EndCall(i) ==
    /\ world.calls[i].phase \in {"returned", "rejected"}
    /\ world' = [world EXCEPT !.calls[i] = IdleCall]
    /\ UNCHANGED <<pc, op, args, result, requests>>

\* Time passes
AdvanceRace ==
    /\ world.now < LastRaceTime
    /\ world' = [world EXCEPT !.now = @ + TickMs]
    /\ UNCHANGED <<pc, op, args, result, requests>>

NextRace ==
    \/ \E i \in Callers : BeginGetAccessToken(i)
    \/ \E i \in Callers : HandleTokenResponse(i)
    \/ \E i \in Callers : EndCall(i)
    \/ AdvanceRace

SpecRace == InitRace /\ [][NextRace]_vars

(***************************************************************************)
(* SpecProcess: the server process from its start to its exit.  The MCP    *)
(* server (main of the client module) checks its environment, creates the  *)
(* Sheets client, registers tools and resources, connects the transport    *)
(* and serves tool calls; the legacy server (index.js) does the same at    *)
(* module level, without resources.  The environment decides whether the   *)
(* credential variable is set, whether the client can be made and whether  *)
(* the transport connects.                                                 *)
(***************************************************************************)
MaxCalls == 2

Servers == {"mcp-sheets", "legacy"}
Running == 0 - 1

\* The callback server.tool registers: handleToolCall in try/catch, so it
\* resolves whatever the handler did
Callback_NoCatch(name, o) == IF o.kind = "throw" THEN o ELSE Return(o.value)

Callback(name, o) == Return(ServerTool(name, o))

\* The callback registerTool registers in the legacy server: the handler's
\* envelope as text, no catch
LegacyCallback(o) == IF o.kind = "throw" THEN o ELSE Return(LegacyServerTool(o))

\* The handler a legacy tool calls
LegacyBranch(name, a, w) ==
    CASE name = "get_spreadsheet" -> Reading(SheetHandlersGetSpreadsheet(a, w), w)
      [] name = "list_sheets" -> Reading(SheetHandlersListSheets(a, w), w)
      [] name = "get_values" -> LegacyGetValues(a, w)
      [] name = "batch_get_values" -> LegacyBatchGetValues(a, w)
      [] name = "update_values" -> LegacyUpdateValues(a, w)
      [] name = "append_values" -> LegacyAppendValues(a, w)
      [] name = "get_sheet_by_gid" -> Reading(LegacyGetSheetByGid(a, w), w)
      \* valueHandlers has no getFormulas: the call throws a TypeError
      [] name = "get_formulas" -> Effect(Throw("TypeError"), <<>>, w)

\* The tools of the legacy server whose handler exists
LegacyOps ==
    {"get_spreadsheet", "list_sheets", "get_values", "batch_get_values",
     "update_values", "append_values", "get_sheet_by_gid"}

LegacyTools == LegacyOps \cup {"get_formulas"}

LegacyArgs(name) ==
    CASE name \in {"get_spreadsheet", "list_sheets"} ->
            {a \in LegacySpreadsheetArgs : a.include_grid_data = Undefined}
      [] name \in {"get_values", "get_formulas"} -> LegacyReadArgs
      [] name = "batch_get_values" ->
            {a \in LegacyBatchArgs : a.ranges.t # "array" \/ Len(a.ranges.v) < 2}
      [] name \in {"update_values", "append_values"} ->
            {a \in LegacyWriteArgs : a.range # Str(<<>>) /\ a.spreadsheet_id # Str(<<>>)}
      [] name = "get_sheet_by_gid" -> LegacyGetSheetByGidArgs

\* The calls of the MCP server's tools: the spreadsheet by its id, by no id,
\* by an id that is not one, by an id of no spreadsheet
ProcessArgs(name) ==
    {a \in ServerArgs(name) :
        \/ name = "create-spreadsheet"
        \/ a.spreadsheetId \in {Undefined, Str(SpreadsheetId), Str(<<"x", "-", "_", "9">>),
                                Str(HttpsPrefix \o Host \o <<"/">>)}}

ProcessSheets == {SheetWorld(ExampleGrid), FailingWorld}

InitProcess ==
    /\ pc = "start"
    /\ op = "none"
    /\ args = NoArgs
    /\ result = NoResult
    /\ requests = <<>>
    /\ world \in [server : Servers,
                  credentials : BOOLEAN, clientLoads : BOOLEAN, connects : BOOLEAN,
                  sheet : ProcessSheets,
                  tools : {{}}, resources : {FALSE}, connected : {FALSE},
                  exit : {Running}, cause : {"none"}, served : {0}]

\* process.exit(code)
Exit(code, cause) ==
    /\ pc' = "exited"
    /\ world' = [world EXCEPT !.exit = code, !.cause = cause]
    /\ UNCHANGED <<op, args, result, requests>>

Step(next) ==
    /\ pc' = next
    /\ UNCHANGED <<op, args, result, requests>>

\* A start that goes on without the credential variable
CheckEnvironment_NoExit ==
    /\ pc = "start"
    /\ Step("client") /\ UNCHANGED world

\* if (!process.env.GOOGLE_APPLICATION_CREDENTIALS) process.exit(1), and
\* index.js on GOOGLE_SERVICE_ACCOUNT_PATH
CheckEnvironment ==
    /\ pc = "start"
    /\ IF ~world.credentials THEN Exit(1, "configuration")
       ELSE Step("client") /\ UNCHANGED world

\* createSheetsClient() in try/catch with process.exit(1); in index.js
\* new GoogleSheetsClient(...), whose throw ends the module's evaluation
CreateClient ==
    /\ pc = "client"
    /\ IF ~world.clientLoads THEN Exit(1, "client")
       ELSE Step("tools") /\ UNCHANGED world

\* server.tool(...) for every tool definition; registerTool(...) in index.js
RegisterTools ==
    /\ pc = "tools"
    /\ world' = [world EXCEPT !.tools =
                    IF world.server = "legacy" THEN LegacyTools
                    ELSE Range(getAllToolDefinitions(toolModules))]
    /\ Step(IF world.server = "legacy" THEN "connect" ELSE "resources")

\* server.resource(...)
RegisterResources ==
    /\ pc = "resources"
    /\ world' = [world EXCEPT !.resources = TRUE]
    /\ Step("connect")

\* await server.connect(transport): main().catch and the try/catch of
\* index.js exit with 1 when it fails
ConnectTransport ==
    /\ pc = "connect"
    /\ IF ~world.connects THEN Exit(1, "connect")
       ELSE Step("serving") /\ world' = [world EXCEPT !.connected = TRUE]

\* What serving a call leaves: the callback's result, the requests of the
\* call, the spreadsheet after it
Served(name, a, cb, r) ==
    /\ pc' = "serving"
    /\ op' = name
    /\ args' = a
    /\ result' = cb.value
    /\ requests' = r.requests
    /\ world' = [world EXCEPT !.sheet = r.world, !.served = @ + 1]

\* A callback that rejects: the rejection is the SDK's to handle; unhandled,
\* it ends the legacy process (process.on('unhandledRejection')) with 1
Rejected(name, a, r) ==
    /\ op' = name
    /\ args' = a
    /\ requests' = r.requests
    /\ \/ /\ pc' = "serving"
          /\ result' = ToolError("rejected", [tool |-> name, message |-> "rejected"])
          /\ world' = [world EXCEPT !.sheet = r.world, !.served = @ + 1]
       \/ /\ pc' = "exited"
          /\ result' = NoResult
          /\ world' = [world EXCEPT !.sheet = r.world, !.exit = 1,
                                    !.cause = "unhandled rejection"]

ServeWith(name, a, cb, r) ==
    IF cb.kind = "throw" THEN Rejected(name, a, r) ELSE Served(name, a, cb, r)

\* A tools/call request of the MCP server
ServeToolCall ==
    /\ pc = "serving" /\ world.server = "mcp-sheets" /\ world.served < MaxCalls
    /\ \E name \in world.tools \cup UnknownNames :
          \E a \in ProcessArgs(name) :
              ServeWith(name, a,
                        Callback(name, ServerHandleToolCall(name, a, world.sheet).outcome),
                        ServerHandleToolCall(name, a, world.sheet))

\* A tools/call request of the legacy server
ServeLegacyToolCall ==
    /\ pc = "serving" /\ world.server = "legacy" /\ world.served < MaxCalls
    /\ \E name \in world.tools :
          \E a \in LegacyArgs(name) :
              ServeWith(name, a, LegacyCallback(LegacyBranch(name, a, world.sheet).outcome),
                        LegacyBranch(name, a, world.sheet))

\* SIGINT or SIGTERM: shutdown, process.exit(0)
Shutdown ==
    /\ pc = "serving" /\ world.server = "mcp-sheets"
    /\ Exit(0, "signal")

NextProcess ==
    \/ CheckEnvironment \/ CreateClient \/ RegisterTools \/ RegisterResources
    \/ ConnectTransport \/ ServeToolCall \/ ServeLegacyToolCall \/ Shutdown

SpecProcess == InitProcess /\ [][NextProcess]_vars

(***************************************************************************)
(* SpecStartup: the process with its startup running to its end: the       *)
(* module's code and main run without waiting for anything but the client  *)
(* and the transport.                                                      *)
(***************************************************************************)
SpecStartup ==
    /\ SpecProcess
    /\ WF_vars(CheckEnvironment) /\ WF_vars(CreateClient)
    /\ WF_vars(RegisterTools) /\ WF_vars(RegisterResources) /\ WF_vars(ConnectTransport)

(***************************************************************************)
(* Claims about the URL parser, under SpecParse                            *)
(***************************************************************************)
ParseDone == pc = "done" /\ op = "parseSpreadsheetInput"

\* C1: every non-empty input string that does not start with "http://" or
\* "https://" is returned unchanged as the spreadsheet id, with gid null.
C1_BareInputUnchanged ==
    (/\ ParseDone
     /\ args.input.t = "string"
     /\ Len(args.input.v) > 0
     /\ \A p \in {HttpPrefix, HttpsPrefix} :
            Len(args.input.v) < Len(p) \/ \E k \in 1..Len(p) : args.input.v[k] # p[k])
    => result = Return([spreadsheetId |-> args.input.v, gid |-> Null])

\* A bare input that holds the text of a Sheets URL path, a "?" and a gid,
\* but no scheme, has been parsed.
C1_Witness ==
    /\ ParseDone
    /\ args.parts.kind = "bare"
    /\ Includes(args.input.v, SpreadsheetsD)
    /\ Includes(args.input.v, <<"?">>)
    /\ result.kind = "return"

\* The gid pairs of a query, in order.
GidPairs(q) == SelectSeq(q, LAMBDA p : p.name = GidName)
\* The digits of a #gid=<digits> fragment, when the fragment is one.
FragmentHasGid(f) == f.present /\ f.isGid /\ f.digits # <<>>

\* C2 as stated: the query gid whenever the parameter is present, whatever its
\* value; else the fragment digits; else null.
GidByPresence(u) ==
    IF GidPairs(u.query) # <<>> THEN Str(GidPairs(u.query)[1].value)
    ELSE IF FragmentHasGid(u.fragment) THEN Str(u.fragment.digits)
    ELSE Null

\* C2 (original statement): for every http(s) URL with the path segment
\* /spreadsheets/d/{ID} the parser returns ID and the gid of the query
\* parameter when present, else of the #gid=<digits> fragment, else null.
C2_Original ==
    (ParseDone /\ args.parts.kind = "sheetUrl")
    => result = Return([spreadsheetId |-> args.parts.id,
                        gid |-> GidByPresence(args.parts)])

\* The query gid counts only when its value is not empty.
GidByValue(u) ==
    IF GidPairs(u.query) # <<>> /\ GidPairs(u.query)[1].value # <<>>
    THEN Str(GidPairs(u.query)[1].value)
    ELSE IF FragmentHasGid(u.fragment) THEN Str(u.fragment.digits)
    ELSE Null

\* C2 (amended): for every http(s) URL with the path segment
\* /spreadsheets/d/{ID} the parser returns ID and resolves gid
\* first-match-wins: the value of the first gid query parameter when it is
\* present with a non-empty value; otherwise the digits of a #gid=<digits>
\* fragment when present; otherwise null.  A query gid wins over a differing
\* fragment gid.
C2_QueryGidFirst ==
    (ParseDone /\ args.parts.kind = "sheetUrl")
    => result = Return([spreadsheetId |-> args.parts.id,
                        gid |-> GidByValue(args.parts)])

\* A URL with a query gid and a differing fragment gid has been parsed, and
\* the query gid came back.
C2_Witness ==
    /\ ParseDone
    /\ args.parts.kind = "sheetUrl"
    /\ GidPairs(args.parts.query) # <<>>
    /\ FragmentHasGid(args.parts.fragment)
    /\ GidPairs(args.parts.query)[1].value # <<>>
    /\ GidPairs(args.parts.query)[1].value # args.parts.fragment.digits
    /\ result.kind = "return"
    /\ result.value.gid = Str(GidPairs(args.parts.query)[1].value)

IsHttpUrl(x) ==
    x.t = "string" /\ (StartsWith(x.v, HttpPrefix) \/ StartsWith(x.v, HttpsPrefix))
FormatError == Throw("Invalid Google Sheets URL")

\* C3 (original statement): an http(s) input whose path does not hold the
\* segment /spreadsheets/d/{id}/ fails with the format error; an empty or
\* missing input fails with an error.
C3_Original ==
    ParseDone =>
        /\ (/\ args.parts.kind \in {"sheetUrl", "otherUrl"}
            /\ ~(args.parts.kind = "sheetUrl" /\ args.parts.slash))
           => result = FormatError
        /\ args.parts.kind \in {"empty", "missing"} => result.kind = "throw"

\* The text /spreadsheets/d/ followed by an id character, anywhere in s.
HoldsIdSegment(s) ==
    \E i \in 1..Len(s) :
        /\ i + Len(SpreadsheetsD) <= Len(s)
        /\ \A k \in 1..Len(SpreadsheetsD) : s[i + k - 1] = SpreadsheetsD[k]
        /\ s[i + Len(SpreadsheetsD)] \in IdClass

\* C3 (amended): an http(s) input that nowhere holds the text
\* /spreadsheets/d/ followed by at least one id character (in its path, query
\* or fragment; no "/" need follow the id) fails with the format error and
\* returns no pair; an empty or missing input fails with the "required" error.
C3_NoSegmentRejected ==
    ParseDone =>
        /\ (IsHttpUrl(args.input) /\ ~HoldsIdSegment(args.input.v))
           => result = FormatError
        /\ args.parts.kind \in {"empty", "missing"}
           => result = Throw("Spreadsheet ID or URL is required")

\* An http(s) URL whose path is /spreadsheets/d/ with no id after it has been
\* rejected.
C3_Witness ==
    /\ ParseDone
    /\ args.parts.kind = "otherUrl"
    /\ args.parts.path = SpreadsheetsD
    /\ result = FormatError

(***************************************************************************)
(* Claims about the column letters, under SpecColumn                       *)
(***************************************************************************)
\* The standard parse of a spreadsheet column label, A = 0: bijective base 26.
RECURSIVE ColumnLabelValue(_)
ColumnLabelValue(label) ==
    IF label = <<>> THEN 0
    ELSE 26 * ColumnLabelValue(SubSeq(label, 1, Len(label) - 1))
         + (CHOOSE k \in 1..26 : UpperLetters[k] = label[Len(label)])
ColumnLabelParse(label) == ColumnLabelValue(label) - 1

ColumnDone == pc = "done" /\ op \in {"search.columnIndexToLetter", "sheet.columnIndexToLetter"}

\* The labels the search-tools copy gives to the indices of the model.
SearchLabels == [n \in 0..MaxColumnIndex |-> columnIndexToLetter(n)]
SheetLabels == [n \in 0..MaxColumnIndex |-> SheetTools_columnIndexToLetter(n)]

\* C4: columnIndexToLetter is the inverse of the standard column-label parse:
\* the label of n is a non-empty word of upper-case letters that parses back
\* to n, distinct indices have distinct labels, 0, 25, 26, 701 and 702 give A,
\* Z, AA, ZZ and AAA, and the two copies give the same label.
C4_ColumnLetterInverse ==
    ColumnDone =>
        /\ result.kind = "return"
        /\ Len(result.value) > 0
        /\ \A k \in 1..Len(result.value) : result.value[k] \in Range(UpperLetters)
        /\ ColumnLabelParse(result.value) = args.index
        /\ \A m \in 0..MaxColumnIndex :
              m # args.index => /\ SearchLabels[m] # result.value
                                /\ SheetLabels[m] # result.value
        /\ args.index = 0 => result.value = <<"A">>
        /\ args.index = 25 => result.value = <<"Z">>
        /\ args.index = 26 => result.value = <<"A", "A">>
        /\ args.index = 701 => result.value = <<"Z", "Z">>
        /\ args.index = 702 => result.value = <<"A", "A", "A">>
        /\ SearchLabels[args.index] = result.value
        /\ SheetLabels[args.index] = result.value

\* The first three-letter label has been produced.
C4_Witness ==
    /\ ColumnDone
    /\ args.index = 702
    /\ result.value = <<"A", "A", "A">>

(***************************************************************************)
(* Claims about the search tools, under SpecSearch                         *)
(***************************************************************************)
\* The grid of the sheet searched
SearchedGrid == world.sheets[1].grid

SearchValuesDone ==
    /\ pc = "done" /\ op = "search-values" /\ world.status = "ok" /\ ~result.isError
    /\ args.searchText # Undefined

\* text occurs in cell (exact: is the whole of cell), letter case ignored
TextMatches(cell, text, exact) ==
    LET c == ToLowerCase(cell)
        t == ToLowerCase(text)
    IN IF exact
       THEN c = t
       ELSE \E i \in 1..(Len(c) - Len(t) + 1) : \A k \in 1..Len(t) : c[i + k - 1] = t[k]

\* The cells of grid g that match: <<row, column index>>, row from 1, column
\* index from 0.
MatchingCells(g, text, exact) ==
    {p \in UNION {{<<r, c>> : c \in 0..(Len(g[r]) - 1)} : r \in 1..Len(g)} :
        TextMatches(g[p[1]][p[2] + 1], text, exact)}

RowMajorBefore(p, q) == p[1] < q[1] \/ (p[1] = q[1] /\ p[2] < q[2])

AliceText == <<"A", "l", "i", "c", "e">>

\* C5: the matches search-values collects are exactly the matching cells of
\* the fetched grid in row-major order, compared without regard to case
\* (exact: the whole cell; contains: a substring), each with its 1-based row,
\* its column letters, its cell reference letters + row and the cell's text;
\* searching the example grid for "Alice" exactly gives the one match A2.
C5_RowMajorMatches ==
    SearchValuesDone =>
        LET ms == result.content.fields.matches
            hits == MatchingCells(SearchedGrid, args.searchText.v,
                                  args.matchType = Str(ExactText))
            Pos(k) == <<ms[k].row, ColumnLabelParse(ms[k].col)>>
        IN /\ Len(ms) = Cardinality(hits)
           /\ \A k \in 1..Len(ms) :
                 /\ Pos(k) \in hits
                 /\ ms[k].col # <<>>
                 /\ \A i \in 1..Len(ms[k].col) : ms[k].col[i] \in Range(UpperLetters)
                 /\ ms[k].value = SearchedGrid[Pos(k)[1]][Pos(k)[2] + 1]
                 /\ ms[k].cellRef = ms[k].col \o Decimal(ms[k].row)
           /\ \A k, l \in 1..Len(ms) : k < l => RowMajorBefore(Pos(k), Pos(l))
           /\ (/\ SearchedGrid = ExampleGrid
               /\ args.searchText = Str(AliceText)
               /\ args.matchType = Str(ExactText)
               /\ args.maxResults = Num(10))
              => result.content.fields.listed =
                     <<[cellRef |-> <<"A", "2">>, value |-> AliceText,
                        row |-> 2, col |-> <<"A">>]>>

\* A search that matched in two rows and in both columns, by a substring in
\* another letter case.
C5_Witness ==
    /\ SearchValuesDone
    /\ args.searchText = Str(<<"a">>)
    /\ args.matchType = Undefined
    /\ Len(SearchedGrid) = 3
    /\ SearchedGrid[2] = <<>>
    /\ Len(result.content.fields.matches) = 3
    /\ result.content.fields.matches[3].cellRef = <<"B", "3">>

\* C6: search-values lists at most maxResults matches for every supplied
\* maxResults, and at most 50 when maxResults is omitted.
C6_AtMostMaxResults ==
    SearchValuesDone =>
        Len(result.content.fields.listed)
            <= (IF args.maxResults.t = "number" THEN args.maxResults.v ELSE 50)

\* The same bound, for the supplied values maxResults >= 1 only.
C6_AtMostPositiveMaxResults ==
    (SearchValuesDone /\ args.maxResults # Num(0)) => C6_AtMostMaxResults

FindInColumnDone ==
    /\ pc = "done" /\ op = "find-in-column" /\ world.status = "ok" /\ ~result.isError
    /\ args.searchText # Undefined

\* The matches an uncapped search-values collects on the sheet for the search
\* text and match type of the call.
WholeSheetMatches ==
    LET response == UpstreamGetValues(world, args.spreadsheetId.v,
                                      TemplateText(args.sheetName) \o WholeSheet)
        values == IF Truthy(response.value.values) THEN response.value.values.v ELSE <<>>
    IN ScanRowsFrom(values, 0, ToLowerCase(args.searchText.v),
                    OrElse(args.matchType, Str(ContainsText)), 0, <<>>)

\* row, cellRef and value of each match in its order
RowRefValue(ms) ==
    [k \in 1..Len(ms) |-> [row |-> ms[k].row, cellRef |-> ms[k].cellRef, value |-> ms[k].value]]

FindEqualsRestrictedSearch ==
    RowRefValue(result.content.fields.matches)
        = RowRefValue(SelectSeq(WholeSheetMatches, LAMBDA m : m.col = args.column.v))

SheetsWithGid(g) ==
    {k \in 1..Len(world.sheets) : Decimal(world.sheets[k].properties.sheetId) = g}

\* The lookup reached the spreadsheet: the upstream answers and the
\* spreadsheet asked for is the one it holds.
ClientLookup ==
    /\ pc = "done" /\ op = "sheetsClient.getSheetByGid"
    /\ world.status = "ok" /\ args.spreadsheetId = world.id
ToolLookup ==
    /\ pc = "done" /\ op = "get-sheet-by-gid"
    /\ world.status = "ok"
    /\ requests = <<SpreadsheetsGetRequest(world.id, FALSE)>>
LegacyLookup ==
    /\ pc = "done" /\ op = "get_sheet_by_gid"
    /\ world.status = "ok"
    /\ Len(requests) = 2 /\ args.spreadsheet_id = Str(world.id)

\* The gid the tool looks up: the one of the URL, else the gid argument
ToolGid ==
    LET parsed == parseSpreadsheetInput(OrElse(args.spreadsheetId, args.url)).value
    IN IF Truthy(parsed.gid) THEN parsed.gid.v ELSE args.gid.v

\* C8: looking up a gid that no sheet of the spreadsheet has is a not-found
\* failure and not a throw (the client returns null, the get-sheet-by-gid
\* tool an error-flagged 'Sheet not found' result, the legacy handler
\* {success: false, error}); when a sheet has the gid, that sheet is returned.
C8_GidLookup ==
    /\ ClientLookup =>
          /\ result.kind = "return"
          /\ SheetsWithGid(args.gid.v) = {} => result.value = Null
          /\ \A k \in SheetsWithGid(args.gid.v) :
                result.value = [properties |-> world.sheets[k].properties]
    /\ ToolLookup =>
          /\ result.content.kind \in {"sheet not found", "sheet found"}
          /\ SheetsWithGid(ToolGid) = {} =>
                /\ result.isError
                /\ result.content.kind = "sheet not found"
          /\ \A k \in SheetsWithGid(ToolGid) :
                /\ ~result.isError
                /\ result.content.kind = "sheet found"
                /\ result.content.fields = world.sheets[k].properties
    /\ LegacyLookup =>
          /\ result.content.kind = "json"
          /\ SheetsWithGid(Decimal(args.gid.v)) = {} =>
                /\ result.content.fields.success = FALSE
                /\ DOMAIN result.content.fields = {"success", "error"}
          /\ \A k \in SheetsWithGid(Decimal(args.gid.v)) :
                /\ result.content.fields.success = TRUE
                /\ result.content.fields.data.sheetId = world.sheets[k].properties.sheetId
                /\ result.content.fields.data.title = world.sheets[k].properties.title

\* The tool looked up the gid of a URL in a spreadsheet of two sheets, none
\* of which has it.
C8_Witness ==
    /\ ToolLookup
    /\ Len(world.sheets) = 2
    /\ args.spreadsheetId = Str(EditUrl(<<Pair(GidName, <<"5">>)>>, GidFragment(<<"7">>, <<>>)))
    /\ result.isError
    /\ result.content.kind = "sheet not found"
    /\ result.content.fields.gid = Str(<<"5">>)

GetSheetByGidDone == pc = "done" /\ op = "get-sheet-by-gid"

\* Neither spreadsheetId nor url is given (absent or empty).
NoIdentifierGiven == ~Truthy(args.spreadsheetId) /\ ~Truthy(args.url)

\* The inputs of the model that carry no gid: a bare id, and the /edit URL
\* with no gid or with an empty gid parameter.
InputsWithoutGid ==
    {Str(SpreadsheetId), Str(<<"x", "-", "_", "9">>),
     Str(EditUrl(<<>>, NoFragment)),
     Str(EditUrl(<<Pair(GidName, <<>>)>>, NoFragment))}

\* An identifier is given, and neither it nor the gid argument holds a gid.
NoGidObtainable ==
    /\ ~NoIdentifierGiven
    /\ (IF Truthy(args.spreadsheetId) THEN args.spreadsheetId ELSE args.url)
           \in InputsWithoutGid
    /\ args.gid \in {Undefined, Str(<<>>)}

C9_NoGidWitness ==
    /\ GetSheetByGidDone
    /\ world.status = "ok"
    /\ args = [spreadsheetId |-> Str(SpreadsheetId), url |-> Undefined, gid |-> Undefined]
    /\ result.content.kind = "no gid provided"

(***************************************************************************)
(* Claims about calls with arguments left out, under SpecTools             *)
(***************************************************************************)
\* The required arguments of each tool and legacy handler of the model
RequiredArguments ==
    [o \in {"get-values", "clear-values"} |-> {"spreadsheetId", "range"}]
    @@ [o \in {"update-values", "append-values"} |-> {"spreadsheetId", "range", "values"}]
    @@ [o \in {"get_values"} |-> {"spreadsheet_id", "range"}]
    @@ [o \in {"batch_get_values"} |-> {"spreadsheet_id", "ranges"}]
    @@ [o \in {"update_values", "append_values"} |-> {"spreadsheet_id", "range", "values"}]
    @@ [o \in {"get_sheet_by_gid"} |-> {"spreadsheet_id", "gid"}]
    @@ [o \in {"search-values"} |-> {"spreadsheetId", "sheetName", "searchText"}]
    @@ [o \in {"find-in-column"} |-> {"spreadsheetId", "sheetName", "column", "searchText"}]

\* The call left a required argument out (for batch_get_values an empty
\* ranges array counts as left out).
OmitsRequired ==
    /\ pc = "done"
    /\ op \in DOMAIN RequiredArguments
    /\ \/ \E f \in RequiredArguments[op] : args[f] = Undefined
       \/ op = "batch_get_values" /\ args.ranges = Arr(<<>>)

\* The call failed: an error-flagged result of a tool, {success: false,
\* error} of a legacy handler.
CallFailed ==
    IF result.content.kind = "json"
    THEN result.content.fields.success = FALSE
    ELSE result.isError

\* C10: a call that leaves a required argument out (spreadsheet id, range,
\* ranges, values, sheet name, search text) fails and sends no request.
C10_OmittedArgumentNoRequest == OmitsRequired => (CallFailed /\ requests = <<>>)

\* The same for the values tools and the legacy handlers alone.
C10_ValuesAndLegacy ==
    (OmitsRequired /\ op \notin {"search-values", "find-in-column"})
        => (CallFailed /\ requests = <<>>)

(***************************************************************************)
(* Claims about the response envelopes of the legacy handlers, under       *)
(* SpecTools                                                               *)
(***************************************************************************)
\* A legacy handler has returned; result holds its envelope
EnvelopeDone == pc = "done" /\ op \in LegacyOps

\* C11: the envelope a handler or a client operation returns carries data
\* and no error when success is true, error and no data when it is false, on
\* every path (validation failure, upstream failure, not found, success).
C11_ExactlyDataOrError ==
    EnvelopeDone =>
        IF result.content.fields.success
        THEN DOMAIN result.content.fields = {"success", "data"}
        ELSE DOMAIN result.content.fields = {"success", "error"}

\* A lookup that reached the upstream and found no sheet of the gid
C11_Witness ==
    /\ EnvelopeDone
    /\ op = "get_sheet_by_gid"
    /\ Len(requests) = 2
    /\ ~result.content.fields.success
    /\ DOMAIN result.content.fields = {"success", "error"}

(***************************************************************************)
(* Claims about the access token, under SpecToken                          *)
(***************************************************************************)
GetAccessTokenDone == pc = "done" /\ op = "getAccessToken"

\* A token was cached at the call, and the time of the call was more than
\* the five minutes of margin before its expiry
CachedAndFresh ==
    /\ args.client.accessToken # Null
    /\ args.client.tokenExpiry # Null
    /\ args.now + 5 * 60 * 1000 < args.client.tokenExpiry.v

\* C12: getAccessToken returns the cached token without a token request
\* exactly when a token is cached and the time is more than five minutes
\* before its expiry; otherwise it makes one exchange and, when that
\* succeeds, keeps the new token and its expiry; no exchange is made before
\* the first call.
C12_TokenLifecycle ==
    /\ op = "none" => (world.exchanges = 0 /\ world.client = NewClient)
    /\ GetAccessTokenDone =>
          IF CachedAndFresh
          THEN /\ requests = <<>>
               /\ result = Return(args.client.accessToken)
               /\ world.client = args.client
          ELSE /\ requests = <<TokenRequest>>
               /\ result.kind = "return" =>
                     /\ world.client.accessToken = result.value
                     /\ world.client.tokenExpiry.v >= args.now
                     /\ \E e \in ExpiresIn :
                           world.client.tokenExpiry = Num(world.now + e * 1000)
               /\ result.kind = "throw" => world.client = args.client

\* A second call that returned the cached token
C12_Witness ==
    /\ GetAccessTokenDone
    /\ CachedAndFresh
    /\ requests = <<>>
    /\ world.exchanges = 1

\* A call within the margin of a cached token, which got a new token
C12_RenewedWitness ==
    /\ GetAccessTokenDone
    /\ args.client.accessToken # Null
    /\ ~CachedAndFresh
    /\ result.kind = "return"
    /\ result.value # args.client.accessToken
    /\ world.exchanges = 2

\* The call needed an exchange, and the token endpoint answered it with a
\* status other than 200
ExchangeRefused ==
    /\ pc = "done"
    /\ op \in {"getAccessToken", "getSpreadsheet"}
    /\ ~CachedAndFresh
    /\ args.tokenAnswer.kind = "response"
    /\ args.tokenAnswer.statusCode # 200

\* C13: when the token endpoint answers the exchange with a status other
\* than 200, getAccessToken fails after that one exchange, the cached token
\* and expiry stay as they were, and the operation that needed the token
\* sends no Sheets API request.
C13_FailedExchange ==
    ExchangeRefused =>
        /\ requests = <<TokenRequest>>
        /\ world.client = args.client
        /\ world.exchanges >= 1
        /\ op = "getAccessToken" => result.kind = "throw"
        /\ op = "getSpreadsheet" =>
              (result.kind = "return" /\ result.value.success = FALSE)

\* getSpreadsheet with an outdated token cached, the exchange refused
C13_Witness ==
    /\ ExchangeRefused
    /\ op = "getSpreadsheet"
    /\ args.client.accessToken # Null
    /\ requests = <<TokenRequest>>
    /\ world.client = args.client

(***************************************************************************)
(* Claims about the operations of the client, under SpecClient             *)
(***************************************************************************)
ClientOps ==
    {"getSpreadsheet", "listSheets", "getValues", "batchGetValues", "updateValues",
     "appendValues"}

ClientOpDone == pc = "done" /\ op \in ClientOps

\* The requests of the operation that went to the Sheets API
SheetsRequests == SelectSeq(requests, LAMBDA q : q # TokenRequest)
TokenRequests == SelectSeq(requests, LAMBDA q : q = TokenRequest)

\* The API answered the request of the operation with a status other than 200
RefusedByApi == args.answer.kind = "response" /\ args.answer.statusCode # 200

\* The failure carries the status and the body of the API's answer
CarriesStatus ==
    /\ result.value.success = FALSE
    /\ result.value.error.statusCode = args.answer.statusCode
    /\ result.value.error.data = args.answer.data

\* C14 as stated: every operation sends exactly one Sheets API request, and
\* returns a failure carrying status and message when the status is not 2xx.
C14_Original ==
    ClientOpDone =>
        /\ Len(SheetsRequests) = 1
        /\ RefusedByApi => CarriesStatus

\* The operation had an access token: a fresh one cached, or a new one from
\* the token endpoint
TokenAtHand ==
    \/ CachedAndFresh
    \/ args.tokenAnswer.kind = "response" /\ args.tokenAnswer.statusCode = 200

\* C14: every operation of the client sends at most one Sheets API request
\* and at most one token request, never a second one: exactly one Sheets
\* request when it has an access token, none when the exchange fails; when
\* the API answers with a status other than 200 the operation returns a
\* failure that carries that status and the body of the answer.
C14_AtMostOneRequest ==
    ClientOpDone =>
        /\ Len(SheetsRequests) = (IF TokenAtHand THEN 1 ELSE 0)
        /\ Len(TokenRequests) = (IF CachedAndFresh THEN 0 ELSE 1)
        /\ result.kind = "return"
        /\ (TokenAtHand /\ RefusedByApi) => CarriesStatus

\* An update the API refused with a 500: one request, the status in the
\* failure
C14_Witness ==
    /\ ClientOpDone
    /\ op = "updateValues"
    /\ TokenAtHand
    /\ RefusedByApi
    /\ args.answer.statusCode = 500
    /\ Len(SheetsRequests) = 1
    /\ CarriesStatus

\* The tools' client (createSheetsClient) under SpecTools and SpecSheet: at
\* most one request for each call of a tool.
C14_ToolsAtMostOneRequest ==
    (pc = "done" /\ op \notin LegacyOps) => Len(requests) <= 1

(***************************************************************************)
(* Claims about the dispatch of tool calls, under SpecDispatch             *)
(***************************************************************************)
DispatchDone == pc = "done" /\ op = "handleToolCall"

\* The modules of the registry that have a branch for the name of the call
HandlingModules == {k \in 1..Len(world.modules) : args.name \in world.modules[k].handles}

ModuleNames(mods) == [k \in 1..Len(mods) |-> mods[k].module]

\* C15: the modules are tried in registration order; the result is that of
\* the first module that handles the name and no later module is invoked;
\* when no module handles it the call fails with 'Unknown tool'.  A later
\* module that handles the same name is never reached.
C15_FirstModuleWins ==
    DispatchDone =>
        IF HandlingModules = {}
        THEN /\ result.outcome = Throw([unknownTool |-> args.name])
             /\ result.invoked = ModuleNames(world.modules)
        ELSE /\ result.invoked = ModuleNames(SubSeq(world.modules, 1, Min(HandlingModules)))
             /\ result.outcome =
                   ModuleHandleToolCall(world.modules[Min(HandlingModules)], args.name,
                                        args.fails)
             /\ \A k \in HandlingModules :
                   k > Min(HandlingModules) => Len(result.invoked) < k

\* get-values on a registry where the shadow module comes after the values
\* module: the values module answers, the shadow module is not reached
C15_Witness ==
    /\ DispatchDone
    /\ args.name = "get-values"
    /\ ~args.fails
    /\ world.modules = <<spreadsheetTools, valuesTools, shadowTools>>
    /\ result.outcome = Return([handledBy |-> "values", tool |-> "get-values"])
    /\ result.invoked = <<"spreadsheet", "values">>

\* A name no module handles, on the registry of the server
C15_UnknownWitness ==
    /\ DispatchDone
    /\ world.modules = toolModules
    /\ args.name = "delete-sheet"
    /\ result.outcome.kind = "throw"
    /\ Len(result.invoked) = 4

\* The call went through the registry of the server
ServerDispatchDone == DispatchDone /\ world.modules = toolModules

\* The modules of the server whose getToolDefinitions lists the name
DefiningModules == {k \in 1..Len(toolModules) : args.name \in Range(toolModules[k].defines)}

\* C16: the twelve names getAllToolDefinitions returns are pairwise
\* distinct; each is handled by exactly one module, the one that defines it;
\* a name that is not among them is handled by no module.
C16_DisjointToolNames ==
    /\ Len(getAllToolDefinitions(toolModules)) = 12
    /\ Cardinality(Range(getAllToolDefinitions(toolModules))) = 12
    /\ ServerDispatchDone =>
          IF args.name \in Range(getAllToolDefinitions(toolModules))
          THEN /\ Cardinality(HandlingModules) = 1
               /\ HandlingModules = DefiningModules
               /\ result.outcome =
                     ModuleHandleToolCall(toolModules[Min(DefiningModules)], args.name,
                                          args.fails)
               /\ result.outcome # Return(Null)
          ELSE /\ HandlingModules = {}
               /\ result.outcome = Throw([unknownTool |-> args.name])

\* get-sheet-preview, answered by the sheet module, which defines it
C16_Witness ==
    /\ ServerDispatchDone
    /\ args.name = "get-sheet-preview"
    /\ ~args.fails
    /\ result.outcome = Return([handledBy |-> "sheet", tool |-> "get-sheet-preview"])
    /\ result.invoked = <<"spreadsheet", "values", "sheet">>

(***************************************************************************)
(* Claims about the spreadsheet argument of the tools, under SpecServer    *)
(***************************************************************************)
\* The tools that take a spreadsheetId
IdTools == Range(getAllToolDefinitions(toolModules)) \ {"create-spreadsheet"}

\* The step is a call of such a tool with a URL of the spreadsheet
UrlCall == pc' = "done" /\ op' \in IdTools /\ args'.spreadsheetId \in UrlForms

\* Every request of the call names the spreadsheet by its id
SameIdSent ==
    \A k \in 1..Len(requests') : requests'[k].spreadsheetId = SpreadsheetId

\* The call did what the call with these arguments does
SameAs(b) ==
    /\ result' = ServerTool(op', ServerHandleToolCall(op', b, world).outcome)
    /\ requests' = requests \o ServerHandleToolCall(op', b, world).requests
    /\ world' = ServerHandleToolCall(op', b, world).world

BareId == [args' EXCEPT !.spreadsheetId = Str(SpreadsheetId)]

\* The gid the URL of the call carries, or null
UrlGid == parseSpreadsheetInput(args'.spreadsheetId).value.gid

\* The statement as the specification has it: with a URL of the spreadsheet
\* in place of its id, every tool sends the same id and gives the same result.
C17_Original == [][UrlCall => SameIdSent /\ SameAs(BareId)]_vars

\* C17: a tool called with a URL https://docs.google.com/spreadsheets/d/ID/edit...
\* sends ID in every request.  Every tool but get-sheet-by-gid gives the
\* result, the requests and the effect of the call with ID.  get-sheet-by-gid
\* gives those of the call with ID and the gid of the URL when the URL has one,
\* those of the call with ID when the URL has none and a gid is given, and
\* otherwise the "No gid provided" error quoting the URL as it was given.
C17_UrlOrId ==
    [][UrlCall =>
          /\ SameIdSent
          /\ op' # "get-sheet-by-gid" => SameAs(BareId)
          /\ op' = "get-sheet-by-gid" =>
                IF Truthy(UrlGid) THEN SameAs([BareId EXCEPT !.gid = UrlGid])
                ELSE IF Truthy(args'.gid) THEN SameAs(BareId)
                ELSE /\ result' = ToolError("no gid provided",
                                            [spreadsheetId |-> args'.spreadsheetId,
                                             gid |-> args'.gid])
                     /\ requests' = requests
                     /\ world' = world]_vars

\* update-values with the /edit?gid=7 URL has written to the spreadsheet
C17_Witness ==
    /\ pc = "done" /\ op = "update-values"
    /\ args.spreadsheetId = Str(EditUrl(<<Pair(GidName, <<"7">>)>>, NoFragment))
    /\ ~result.isError
    /\ Len(requests) = 1
    /\ requests[1].spreadsheetId = SpreadsheetId

\* list-sheets with a URL has listed the sheets
C17_ListWitness ==
    /\ pc = "done" /\ op = "list-sheets"
    /\ args.spreadsheetId \in UrlForms
    /\ ~result.isError

\* get-sheet-by-gid with gid 0 and the URL of gid 7 has found sheet 7
C17_GidWitness ==
    /\ pc = "done" /\ op = "get-sheet-by-gid"
    /\ args.spreadsheetId = Str(EditUrl(<<Pair(GidName, <<"7">>)>>, NoFragment))
    /\ args.gid = Str(<<"0">>)
    /\ ~result.isError
    /\ result.content.fields.sheetId = 7

(***************************************************************************)
(* Claims about the error flag of tool results, under SpecServer           *)
(***************************************************************************)
ToolDone == pc = "done" /\ op \in Range(getAllToolDefinitions(toolModules))
UnknownDone == pc = "done" /\ op \in UnknownNames
LegacyDone == pc = "done" /\ op \in LegacyOps

\* The result is one text block and the flag
SingleTextBlock ==
    /\ DOMAIN result = {"content", "isError"}
    /\ DOMAIN result.content = {"kind", "fields"}

\* What the call was given, as the URL parser reads it
GivenSpreadsheet == parseSpreadsheetInput(args.spreadsheetId)

\* No spreadsheet is named: the identifier is missing or is not one
NoSpreadsheet ==
    /\ op # "create-spreadsheet"
    /\ \/ ~Truthy(args.spreadsheetId)
       \/ GivenSpreadsheet.kind = "throw"

\* The gid of a get-sheet-by-gid call: that of the URL, else the argument
GivenGid == IF Truthy(GivenSpreadsheet.value.gid) THEN GivenSpreadsheet.value.gid ELSE args.gid

\* A required argument other than the spreadsheet and the search text is missing
MissingArgument ==
    CASE op \in {"get-values", "clear-values"} -> args.range = Undefined
      [] op \in {"update-values", "append-values"} -> args.values = Undefined
      [] op = "get-sheet-by-gid" -> ~NoSpreadsheet /\ ~Truthy(GivenGid)
      [] OTHER -> FALSE

MissingSearchText == op \in {"search-values", "find-in-column"} /\ args.searchText = Undefined

\* The sheet whose cells the call reads or writes
SheetRead ==
    CASE op \in {"get-values", "clear-values", "update-values", "append-values"} ->
            A1Range(args.range.v).sheet
      [] OTHER -> args.sheetName.v

\* The values of an update-values call do not fit in its range
ValuesExceedRange ==
    /\ op = "update-values"
    /\ \/ Len(args.values.v) > A1Range(args.range.v).row2 - A1Range(args.range.v).row1 + 1
       \/ Width(args.values.v) > A1Range(args.range.v).col2 - A1Range(args.range.v).col1 + 1

\* Google refuses the request of the call: the API is down, there is no such
\* spreadsheet, no such sheet for the cells, no room for the values, or the
\* range ends in a negative row
UpstreamRefuses ==
    /\ ~NoSpreadsheet /\ ~MissingArgument
    /\ \/ world.status # "ok"
       \/ ValuesExceedRange
       \/ op = "get-sheet-preview" /\ args.numRows # Undefined /\ args.numRows.v < 0
       \/ /\ op # "create-spreadsheet"
          /\ \/ GivenSpreadsheet.value.spreadsheetId # world.id
             \/ /\ op \in {"get-values", "clear-values", "update-values", "append-values",
                           "get-sheet-preview", "search-values", "find-in-column"}
                /\ SheetsTitled(world, SheetRead) = {}

\* The sheet looked up is not in the spreadsheet
NotFound ==
    /\ ~NoSpreadsheet /\ ~MissingArgument /\ ~UpstreamRefuses
    /\ \/ /\ op = "get-sheet-by-gid"
          /\ \A k \in 1..Len(world.sheets) :
                Decimal(world.sheets[k].properties.sheetId) # TemplateText(GivenGid)
       \/ /\ op = "get-sheet-info"
          /\ SheetsTitled(world, args.sheetName.v) = {}

\* The sheet of a search holds a value
SheetHasValues ==
    \E k \in SheetsTitled(world, args.sheetName.v) :
        \E i \in 1..Len(world.sheets[k].grid) :
            \E j \in 1..Len(world.sheets[k].grid[i]) : world.sheets[k].grid[i][j] # <<>>

ToolFailed == NoSpreadsheet \/ MissingArgument \/ UpstreamRefuses \/ NotFound

C18_SuccessWitness ==
    /\ ToolDone /\ op = "get-values"
    /\ ~ToolFailed
    /\ ~result.isError

\* An upstream refusal, flagged by the callback's catch
C18_UpstreamWitness ==
    /\ ToolDone /\ op = "list-sheets"
    /\ UpstreamRefuses
    /\ result.isError
    /\ result.content.kind = "error executing"

\* A search without search text on a sheet without values: no flag
C18_UnflaggedWitness ==
    /\ ToolDone /\ MissingSearchText
    /\ ~ToolFailed
    /\ ~result.isError

\* A legacy get_values without spreadsheet_id: the envelope says failure,
\* the result carries no flag
C18_LegacyWitness ==
    /\ LegacyDone /\ op = "get_values"
    /\ ~result.content.fields.success
    /\ ~result.isError

(***************************************************************************)
(* Claims about the life of the server process, under SpecProcess          *)
(***************************************************************************)
StartupCauses == {"configuration", "client", "connect"}

\* The last call served ended in a failure of the call
LastCallFailed ==
    IF world.server = "legacy" THEN ~result.content.fields.success ELSE result.isError

\* C19: a tool call that fails (validation, parse, not found, upstream,
\* unknown name) leaves the process serving, and the next call is served;
\* the process exits with a failure status only at startup (environment,
\* client, transport), before any call, or on an unhandled rejection, which
\* only the get_formulas callback of the legacy server can raise; a signal
\* ends the MCP server with status 0.
C19_FailuresAreLocal ==
    /\ pc = "serving" => world.exit = Running /\ world.connected
    /\ pc = "serving" /\ world.served < MaxCalls =>
          ENABLED (ServeToolCall \/ ServeLegacyToolCall)
    /\ world.served > 0 /\ op # "get_formulas" =>
          \/ pc = "serving" /\ DOMAIN result = {"content", "isError"}
          \/ pc = "exited" /\ world.cause = "signal"
    /\ pc = "exited" =>
          \/ world.cause \in StartupCauses /\ world.exit = 1 /\ world.served = 0
          \/ /\ world.cause = "unhandled rejection" /\ world.exit = 1
             /\ world.server = "legacy" /\ op = "get_formulas"
          \/ world.cause = "signal" /\ world.exit = 0 /\ world.server = "mcp-sheets"

\* Two failed calls in a row, an upstream error after an unknown spreadsheet,
\* and the MCP server still serves
C19_Witness ==
    /\ pc = "serving" /\ world.server = "mcp-sheets"
    /\ world.served = MaxCalls
    /\ world.sheet = FailingWorld
    /\ op = "get-values"
    /\ LastCallFailed
    /\ Len(requests) = 1

\* The legacy server after a call that failed in validation
C19_LegacyWitness ==
    /\ pc = "serving" /\ world.server = "legacy"
    /\ world.served > 0
    /\ op = "update_values"
    /\ LastCallFailed
    /\ requests = <<>>

\* The legacy process ended by the rejection of the get_formulas callback
C19_RejectionWitness ==
    /\ pc = "exited" /\ world.cause = "unhandled rejection"
    /\ world.served > 0

(***************************************************************************)
(* Claims about the startup of the process, under SpecStartup              *)
(***************************************************************************)
\* The credential variable is unset, or the Sheets client cannot be made
NoCredentials == ~world.credentials \/ ~world.clientLoads

\* Nothing is registered, nothing connected, nothing served
NothingServed ==
    /\ world.tools = {}
    /\ ~world.resources
    /\ ~world.connected
    /\ world.served = 0
    /\ op = "none"

\* C20: when the credential variable is unset or the Sheets client cannot be
\* initialised, no tool and no resource is ever registered, the transport is
\* never connected and no call is served, and the process exits with
\* status 1.
C20_FatalStartup ==
    /\ [](NoCredentials =>
            /\ NothingServed
            /\ pc \in {"start", "client", "exited"}
            /\ pc = "exited" =>
                  /\ world.exit = 1
                  /\ world.cause = IF world.credentials THEN "client" ELSE "configuration")
    /\ (NoCredentials ~> (pc = "exited" /\ world.exit = 1))

\* The MCP server has exited on the missing credential variable
C20_Witness ==
    /\ pc = "exited" /\ world.server = "mcp-sheets"
    /\ ~world.credentials
    /\ world.exit = 1
    /\ NothingServed

\* The client could not be made from the credentials named: exit, nothing
\* registered
C20_ClientWitness ==
    /\ pc = "exited"
    /\ world.credentials /\ ~world.clientLoads
    /\ world.exit = 1
    /\ NothingServed

(***************************************************************************)
(* Claims about the resource, under SpecResource                           *)
(***************************************************************************)
\* The ids {id} of resource://mcp-sheets/spreadsheet/{id}: not empty, on
\* one line
PatternIds == {i \in ResourceIds : i # <<>> /\ \A k \in 1..Len(i) : i[k] \notin LineTerminators}

\* The step is a read of the URI of the id
ReadOf(i) == pc' = "done" /\ op' = "handleResourceRead" /\ args'.uri = ResourcePrefix \o i

\* The step is a read of a URI that is not of the pattern
ReadOfOther ==
    /\ pc' = "done" /\ op' = "handleResourceRead"
    /\ args'.uri \notin {ResourcePrefix \o i : i \in PatternIds}

\* C21: a read of resource://mcp-sheets/spreadsheet/{id} sends one request,
\* spreadsheets.get of that id without grid data, leaves the spreadsheet as
\* it was and, when the request is answered, returns one application/json
\* content item of the URI holding the metadata of the spreadsheet; a read
\* of any other URI throws 'Unknown resource URI' and sends nothing.
C21_ReadOnlyResource ==
    [][/\ \A i \in PatternIds :
             ReadOf(i) =>
                /\ requests' = requests \o <<[api |-> "spreadsheets.get", spreadsheetId |-> i,
                                              includeGridData |-> FALSE]>>
                /\ world' = world
                /\ IF world.status = "ok" /\ world.id = i
                   THEN /\ result'.kind = "return"
                        /\ DOMAIN result'.value = {"contents"}
                        /\ Len(result'.value.contents) = 1
                        /\ result'.value.contents[1].uri = args'.uri
                        /\ result'.value.contents[1].mimeType = "application/json"
                        /\ result'.value.contents[1].text.spreadsheetId = i
                        /\ Len(result'.value.contents[1].text.sheets) = Len(world.sheets)
                   ELSE result' = Throw("upstream error")
       /\ ReadOfOther =>
             /\ result' = Throw([unknownResourceUri |-> args'.uri])
             /\ requests' = requests
             /\ world' = world]_vars

\* The metadata of the spreadsheet has been read
C21_Witness ==
    /\ pc = "done" /\ op = "handleResourceRead"
    /\ args.uri = ResourcePrefix \o SpreadsheetId
    /\ result.kind = "return"
    /\ result.value.contents[1].text.title = BookProperties.title
    /\ Len(requests) = 1

\* A URI of another namespace has been refused
C21_UnknownWitness ==
    /\ pc = "done" /\ op = "handleResourceRead"
    /\ args.uri = OtherNamespace \o SpreadsheetId
    /\ result = Throw([unknownResourceUri |-> args.uri])
    /\ requests = <<>>

(***************************************************************************)
(* Claims about writing and reading back, under SpecRoundTrip              *)
(***************************************************************************)
\* The array was written and the range read back
ReadBackDone == pc = "done" /\ op = "get-values" /\ ~args.updated.isError

\* The array is a rectangle of at least one cell, none of them ''
FullRectangle ==
    /\ Len(args.values.v) > 0
    /\ \A i \in 1..Len(args.values.v) :
          /\ Len(args.values.v[i]) = Width(args.values.v)
          /\ Len(args.values.v[i]) > 0
          /\ \A j \in 1..Len(args.values.v[i]) : args.values.v[i][j] # Str(<<>>)

\* The cells of the range that the array did not reach are empty
RestOfRangeEmpty ==
    LET r == A1Range(args.range.v)
        g == world.sheets[1].grid
    IN \A i \in r.row1..r.row2 : \A j \in r.col1..r.col2 :
          \/ i - r.row1 + 1 <= Len(args.values.v) /\ j - r.col1 + 1 <= Width(args.values.v)
          \/ CellOf(g, i, j) = <<>>

SameShape ==
    /\ ~result.isError
    /\ result.content.fields.rowCount = Len(args.values.v)
    /\ result.content.fields.colCount = Width(args.values.v)

\* The statement as the specification has it: whatever array was written,
\* the read reports its row and column counts.
C22_Original == ReadBackDone => SameShape

\* C22: when update-values has written a rectangular array of non-empty
\* values to a range whose other cells are empty, get-values of the same
\* range reports as many rows and as many columns as were written.
C22_RoundTripShape == ReadBackDone /\ FullRectangle /\ RestOfRangeEmpty => SameShape

\* A 2 x 2 array written into A2:B3 of an empty sheet and read back
C22_Witness ==
    /\ ReadBackDone /\ FullRectangle /\ RestOfRangeEmpty
    /\ Len(args.values.v) = 2 /\ Width(args.values.v) = 2
    /\ result.content.fields.rowCount = 2
    /\ Len(requests) = 2

\* A 1 x 1 array written into A1:B3 of a full sheet: the read reports the
\* whole range
C22_LargerWitness ==
    /\ ReadBackDone /\ FullRectangle /\ ~RestOfRangeEmpty
    /\ Len(args.values.v) = 1
    /\ result.content.fields.rowCount = 3

\* An array whose first row is the shorter one: the read reports the first
\* row's length
C22_RaggedWitness ==
    /\ ReadBackDone /\ ~FullRectangle /\ RestOfRangeEmpty
    /\ Width(args.values.v) = 2
    /\ result.content.fields.colCount = 1

(***************************************************************************)
(* Claims about the end of the search-values scan, under SpecSearch        *)
(***************************************************************************)
\* args.maxResults || 50
EffectiveMaxResults == OrElse(args.maxResults, Num(50)).v

\* C23: once maxResults matches are collected, search-values examines no
\* later row: every match it collected lies in a row up to the one that
\* held the maxResults-th match.
C23_StopsAtMaxResults ==
    SearchValuesDone /\ Len(result.content.fields.matches) >= EffectiveMaxResults =>
        \A k \in 1..Len(result.content.fields.matches) :
            result.content.fields.matches[k].row
                <= result.content.fields.matches[EffectiveMaxResults].row

\* What does hold: every matching cell of the sheet is collected, whatever
\* maxResults is, and only the listing is cut to maxResults.
C23_ScansEveryRow ==
    SearchValuesDone =>
        /\ RowRefValue(result.content.fields.matches) = RowRefValue(WholeSheetMatches)
        /\ result.content.fields.listed
              = SubSeq(result.content.fields.matches, 1,
                       Least(EffectiveMaxResults, Len(result.content.fields.matches)))

(***************************************************************************)
(* Claims about overlapping token exchanges, under SpecRace                *)
(***************************************************************************)
\* The tokens the endpoint has given in its 200 responses
GrantedTokens == {world.granted[k].token : k \in 1..Len(world.granted)}

Waiting == {i \in Callers : world.calls[i].phase = "waiting"}

\* C24: every call that returns a token returns one the endpoint gave in a
\* 200 response, whatever the calls and responses between its start and its
\* end; when no exchange is in flight and one has succeeded, the cache holds
\* the token and the expiry of a successful exchange.
C24_BenignRace ==
    /\ \A i \in Callers :
          world.calls[i].phase = "returned" => world.calls[i].value \in GrantedTokens
    /\ result.kind = "return" => result.value \in GrantedTokens
    /\ Waiting = {} /\ world.granted # <<>> =>
          /\ world.client.accessToken \in GrantedTokens
          /\ Truthy(world.client.tokenExpiry)

\* Two exchanges were in flight at once, both were answered with a token,
\* and each call has the token of its own exchange
C24_Witness ==
    /\ Len(requests) = 2
    /\ Len(world.granted) = 2
    /\ world.calls[1].phase = "returned" /\ world.calls[2].phase = "returned"
    /\ world.calls[1].value # world.calls[2].value
    /\ world.client.accessToken = world.granted[2].token

\* Two exchanges in flight: there is no single flight
C24_InFlightWitness ==
    /\ Cardinality(Waiting) = 2
    /\ Len(requests) = 2
    /\ world.granted = <<>>

\* C25: the cached token and the cached expiry are both unset until an
\* exchange succeeds, and from then on they are the token of the last 200
\* response handled and the expiry computed from that same response.
C25_TokenAndExpiryTogether ==
    /\ (world.client.accessToken = Null) <=> (world.client.tokenExpiry = Null)
    /\ IF world.granted = <<>>
       THEN world.client = NewClient
       ELSE /\ world.client.accessToken = world.granted[Len(world.granted)].token
            /\ world.client.tokenExpiry = Num(world.granted[Len(world.granted)].expiry)

\* A response has replaced a cached token while another exchange, begun
\* before it, still waits and a third has failed
C25_Witness ==
    /\ Len(world.granted) = 2
    /\ world.client.accessToken = IssuedToken(2)
    /\ Waiting # {}
    /\ Len(requests) = 3

\* A failed exchange beside a cache that stays unset
C25_FailedWitness ==
    /\ \E i \in Callers : world.calls[i].phase = "rejected"
    /\ world.client = NewClient

(***************************************************************************)
(* SpecCall: one tool call step by step.  The handler runs up to its       *)
(* await, the upstream answers or fails, and the handler goes on from the  *)
(* answer; search-values scans the fetched rows cell by cell, and          *)
(* columnIndexToLetter runs its loop one iteration at a time.  While the   *)
(* request is in flight, result holds the answer the upstream has for it.  *)
(***************************************************************************)
MaxScanRows == 2
MaxScanCols == 2

ScanRowsOf == {r \in UNION {[1..n -> CellTexts] : n \in 0..MaxScanCols} :
                  r = <<>> \/ r[Len(r)] # <<>>}
ScanGrids == {g \in UNION {[1..n -> ScanRowsOf] : n \in 0..MaxScanRows} :
                 g = <<>> \/ g[Len(g)] # <<>>}
ScanWorlds == {SheetWorld(g) : g \in ScanGrids}

ScanArgs ==
    {[spreadsheetId |-> Str(SpreadsheetId), sheetName |-> Str(SheetTitle),
      searchText |-> t, matchType |-> Undefined, maxResults |-> n] :
        t \in {Str(<<"a">>), Undefined}, n \in {Undefined, Num(1)}}

\* The other tools, called with the id of the spreadsheet
SteppedTools == Range(getAllToolDefinitions(toolModules)) \ {"search-values"}
SteppedArgs(name) ==
    IF name = "create-spreadsheet" THEN ServerArgs(name)
    ELSE {a \in ServerArgs(name) : a.spreadsheetId = Str(SpreadsheetId)}

InFlight == {"awaiting", "responded", "failed", "scanning", "lettering"}

InitCall ==
    /\ pc = "ready"
    /\ op = "none"
    /\ args = NoArgs
    /\ world \in ScanWorlds \cup ServerWorlds
    /\ result = NoResult
    /\ requests = <<>>

\* The handler runs to its await, or to its end when it fails before it;
\* answered is what the upstream has for the request
BeginToolCall(name, a, answered) ==
    /\ op' = name
    /\ args' = a
    /\ requests' = answered.requests
    /\ IF answered.requests = <<>>
       THEN /\ pc' = "done"
            /\ result' = ServerTool(name, answered.outcome)
       ELSE /\ pc' = "awaiting"
            /\ result' = [kind |-> "pending", answer |-> answered]
    /\ UNCHANGED world

\* The callback of a tool is entered
StartToolCall ==
    /\ pc = "ready"
    /\ world \in ServerWorlds
    /\ \E name \in SteppedTools : \E a \in SteppedArgs(name) :
          BeginToolCall(name, a, ServerHandleToolCall(name, a, world))

\* search-values up to "await sheetsClient.getValues(spreadsheetId, range)"
StartSearchValues ==
    /\ pc = "ready"
    /\ world \in ScanWorlds
    /\ \E a \in ScanArgs :
          /\ op' = "search-values"
          /\ args' = a
          /\ requests' = <<ValuesGetRequest(SpreadsheetId, TemplateText(a.sheetName) \o WholeSheet)>>
          /\ pc' = "awaiting"
          /\ result' = [kind |-> "pending",
                        answer |-> UpstreamGetValues(world, SpreadsheetId,
                                       TemplateText(a.sheetName) \o WholeSheet)]
          /\ UNCHANGED world

\* columnIndexToLetter(index) is entered
StartColumnIndexToLetter ==
    /\ pc = "ready"
    /\ world = SheetWorld(<<>>)
    /\ \E i \in 0..MaxColumnIndex :
          /\ op' = "columnIndexToLetter"
          /\ args' = [index |-> i]
          /\ pc' = "lettering"
          /\ result' = [kind |-> "pending", index |-> i, letter |-> <<>>]
          /\ UNCHANGED <<world, requests>>

\* The upstream answers the request
UpstreamResponds ==
    /\ pc = "awaiting"
    /\ pc' = "responded"
    /\ UNCHANGED <<op, args, world, result, requests>>

\* The request fails on the way
UpstreamFails ==
    /\ pc = "awaiting"
    /\ pc' = "failed"
    /\ UNCHANGED <<op, args, world, result, requests>>

\* The rejected await is caught by the callback and reported.
OnFailure_Unhandled ==
    /\ pc = "failed"
    /\ UNCHANGED vars

\* catch (error) of the callback: the error-flagged result
OnFailure ==
    /\ pc = "failed"
    /\ pc' = "done"
    /\ result' = ServerTool(op, Throw("upstream error"))
    /\ UNCHANGED <<op, args, world, requests>>

\* The handler of a tool other than search-values goes on from the answer
\* of the upstream to its return; the spreadsheet is as the request leaves it
OnResponse ==
    /\ pc = "responded"
    /\ op # "search-values"
    /\ pc' = "done"
    /\ result' = ServerTool(op, result.answer.outcome)
    /\ world' = result.answer.world
    /\ UNCHANGED <<op, args, requests>>

\* The values that came back for the request of the search
Fetched == result.answer

\* search-values goes on from the answer: to its early returns, to the
\* TypeError of args.searchText.toLowerCase(), or into the scan
OnSearchResponse ==
    /\ pc = "responded"
    /\ op = "search-values"
    /\ IF Fetched.kind = "throw"
       THEN /\ pc' = "done"
            /\ result' = ServerTool(op, Fetched)
       ELSE IF ~Truthy(Fetched.value.values) \/ Len(Fetched.value.values.v) = 0
       THEN /\ pc' = "done"
            /\ result' = ToolText("no data", [matches |-> <<>>, listed |-> <<>>])
       ELSE IF args.searchText.t # "string"
       THEN /\ pc' = "done"
            /\ result' = ServerTool(op, Throw("TypeError"))
       ELSE /\ pc' = "scanning"
            /\ result' = [kind |-> "pending", values |-> Fetched.value.values.v,
                          rowIdx |-> 0, colIdx |-> 0, matches |-> <<>>]
    /\ UNCHANGED <<op, args, world, requests>>

\* forEach has called back for every row
ScanFinished(values, rowIdx) == rowIdx >= Len(values)

\* One step of the two forEach loops of search-values: the return after the
\* last row, the end of a row, or a cell
ScanStep ==
    /\ pc = "scanning"
    /\ IF ScanFinished(result.values, result.rowIdx)
       THEN /\ pc' = "done"
            /\ result' = SearchValuesReport(args, OrElse(args.maxResults, Num(50)),
                                            requests[1], result.matches).outcome.value
       ELSE /\ result.rowIdx < Len(result.values)
            /\ IF result.colIdx >= Len(result.values[result.rowIdx + 1])
               THEN /\ pc' = "scanning"
                    /\ result' = [result EXCEPT !.rowIdx = @ + 1, !.colIdx = 0]
               ELSE IF IsMatch(ToLowerCase(StringOf(OrElse(
                                   result.values[result.rowIdx + 1][result.colIdx + 1],
                                   Str(<<>>)))),
                               ToLowerCase(args.searchText.v),
                               OrElse(args.matchType, Str(ContainsText)))
               THEN /\ pc' = "lettering"
                    /\ result' = [kind |-> "pending", values |-> result.values,
                                  rowIdx |-> result.rowIdx, colIdx |-> result.colIdx,
                                  matches |-> result.matches,
                                  index |-> result.colIdx, letter |-> <<>>]
               ELSE /\ pc' = "scanning"
                    /\ result' = [result EXCEPT !.colIdx = @ + 1]
    /\ UNCHANGED <<op, args, world, requests>>

\* The match pushed once its column letter is made
Pushed ==
    [kind |-> "pending", values |-> result.values, rowIdx |-> result.rowIdx,
     colIdx |-> result.colIdx + 1,
     matches |-> Append(result.matches,
         [cellRef |-> result.letter \o Decimal(result.rowIdx + 1),
          value |-> StringOf(OrElse(result.values[result.rowIdx + 1][result.colIdx + 1],
                                    Str(<<>>))),
          row |-> result.rowIdx + 1,
          col |-> result.letter])]

\* One turn of "while (index >= 0)" of columnIndexToLetter, or its return
LetterStep ==
    /\ pc = "lettering"
    /\ IF result.index >= 0
       THEN /\ pc' = "lettering"
            /\ result' = [result EXCEPT
                             !.letter = <<FromCharCode((result.index % 26) + 65)>> \o @,
                             !.index = (result.index \div 26) - 1]
       ELSE IF op = "search-values"
       THEN /\ pc' = "scanning"
            /\ result' = Pushed
       ELSE /\ pc' = "done"
            /\ result' = Return(result.letter)
    /\ UNCHANGED <<op, args, world, requests>>

NextCall ==
    \/ StartToolCall
    \/ StartSearchValues
    \/ StartColumnIndexToLetter
    \/ UpstreamResponds
    \/ UpstreamFails
    \/ OnFailure
    \/ OnResponse
    \/ OnSearchResponse
    \/ ScanStep
    \/ LetterStep

\* Every upstream request is answered or fails, and the event loop runs the
\* handler on from there
SpecCall ==
    /\ InitCall
    /\ [][NextCall]_vars
    /\ WF_vars(UpstreamResponds \/ UpstreamFails)
    /\ WF_vars(OnFailure)
    /\ WF_vars(OnResponse)
    /\ WF_vars(OnSearchResponse)
    /\ WF_vars(ScanStep)
    /\ WF_vars(LetterStep)

(***************************************************************************)
(* Claims about the inputs get-sheet-by-gid chooses, under SpecSheet       *)
(***************************************************************************)
\* What the tool answers to the arguments on the spreadsheet of the state
AnswerTo(a) == ServerTool("get-sheet-by-gid", GetSheetByGid(a, world).outcome)
RequestsOf(a) == GetSheetByGid(a, world).requests

\* The call was given its input as url only
UrlOnly == GetSheetByGidDone /\ args.spreadsheetId = Undefined /\ args.url # Undefined

\* The same input given as spreadsheetId
AsSpreadsheetId == [spreadsheetId |-> args.url, url |-> Undefined, gid |-> args.gid]

\* The precedence of the inputs: url is not looked at when spreadsheetId is
\* given, the gid argument is not looked at when the input carries a gid
InputPrecedence ==
    /\ GetSheetByGidDone /\ Truthy(args.spreadsheetId) =>
          /\ result = AnswerTo([args EXCEPT !.url = Undefined])
          /\ requests = RequestsOf([args EXCEPT !.url = Undefined])
    /\ GetSheetByGidDone /\ ~Truthy(args.spreadsheetId) /\ Truthy(args.url) =>
          /\ result.content.kind = AnswerTo(AsSpreadsheetId).content.kind
          /\ requests = RequestsOf(AsSpreadsheetId)
    /\ /\ GetSheetByGidDone /\ Truthy(args.spreadsheetId)
       /\ parseSpreadsheetInput(args.spreadsheetId).kind = "return"
       /\ Truthy(parseSpreadsheetInput(args.spreadsheetId).value.gid)
       => /\ result = AnswerTo([args EXCEPT !.gid = Undefined])
          /\ requests = RequestsOf([args EXCEPT !.gid = Undefined])

\* The statement as the specification has it: the precedence, and for any
\* input the same outcome whether it is given as url or as spreadsheetId.
C26_Original ==
    /\ InputPrecedence
    /\ UrlOnly => result = AnswerTo(AsSpreadsheetId)

\* C26: get-sheet-by-gid takes spreadsheetId when it is given and not empty,
\* otherwise url; it takes the gid of that input when it carries one and the
\* gid argument only otherwise.  An input given as url gets the result and
\* the requests of the same input given as spreadsheetId, except when no gid
\* is to be had or the input is the empty string: then both calls end in
\* the same error ("No gid provided", "Missing spreadsheet ID") without a
\* request, and the text of the error quotes the arguments as each call
\* received them.
C26_InputPrecedence ==
    /\ InputPrecedence
    /\ UrlOnly =>
          /\ requests = RequestsOf(AsSpreadsheetId)
          /\ IF result.content.kind = "no gid provided"
             THEN /\ AnswerTo(AsSpreadsheetId) =
                        ToolError("no gid provided",
                                  [spreadsheetId |-> args.url, gid |-> args.gid])
                  /\ result = ToolError("no gid provided",
                                        [spreadsheetId |-> Undefined, gid |-> args.gid])
                  /\ requests = <<>>
             ELSE IF result.content.kind = "missing spreadsheet id"
             THEN /\ args.url = Str(<<>>)
                  /\ AnswerTo(AsSpreadsheetId) =
                        ToolError("missing spreadsheet id", [args |-> AsSpreadsheetId])
                  /\ result = ToolError("missing spreadsheet id", [args |-> args])
                  /\ requests = <<>>
             ELSE result = AnswerTo(AsSpreadsheetId)

\* The URL with gid=7 given as url, with the gid argument 0: sheet 7 found
C26_Witness ==
    /\ UrlOnly
    /\ args.url = Str(EditUrl(<<Pair(GidName, <<"7">>)>>, NoFragment))
    /\ args.gid = Str(<<"0">>)
    /\ ~result.isError
    /\ result.content.fields.sheetId = 7

\* spreadsheetId and url both given: the sheet of the spreadsheetId's gid
C26_BothWitness ==
    /\ GetSheetByGidDone
    /\ args.spreadsheetId = Str(EditUrl(<<Pair(GidName, <<"7">>)>>, NoFragment))
    /\ args.url = Str(EditUrl(<<Pair(GidName, <<"0">>)>>, NoFragment))
    /\ ~result.isError
    /\ result.content.fields.sheetId = 7

\* A bare id given as url without gid: the error quotes no spreadsheetId
C26_NoGidWitness ==
    /\ UrlOnly
    /\ args.url = Str(SpreadsheetId)
    /\ result = ToolError("no gid provided", [spreadsheetId |-> Undefined, gid |-> Undefined])

(***************************************************************************)
(* Claims about the gid 0, under SpecSheet                                 *)
(***************************************************************************)
\* The URLs of the spreadsheet that carry the gid g, in the query or in the
\* fragment
UrlsCarrying(g) ==
    {Str(EditUrl(<<Pair(GidName, g)>>, NoFragment)),
     Str(EditUrl(<<>>, GidFragment(g, <<>>)))}

\* The input the tool was given: spreadsheetId, or url when there is none
GivenInput == IF Truthy(args.spreadsheetId) THEN args.spreadsheetId ELSE args.url

\* The call names the spreadsheet and gives the gid g: as the gid argument
\* next to an id or a URL without gid, or carried by the URL
CalledWithGid(g) ==
    /\ GetSheetByGidDone
    /\ world.status = "ok"
    /\ \/ GivenInput \in UrlsCarrying(g)
       \/ /\ GivenInput \in {Str(SpreadsheetId), Str(EditUrl(<<>>, NoFragment))}
          /\ args.gid = Str(g)

\* The legacy handler was called with the spreadsheet and the number n as gid
LegacyCalledWithGid(n) ==
    /\ LegacyLookup
    /\ args.gid = Num(n)

\* C27: for every sheet of the spreadsheet, the sheet whose gid is 0
\* included, get-sheet-by-gid called with the gid of the sheet (as the gid
\* argument, or carried by the URL in its query or its fragment) finds the
\* sheet and reports its title; the legacy handler does the same for the
\* gid given as a number.  A gid of 0 never counts as no gid: the
\* spreadsheet is asked for.
C27_GidZeroIsAGid ==
    /\ \A k \in 1..MaxSheets :
          (world.status = "ok" /\ k <= Len(world.sheets)) =>
              /\ CalledWithGid(Decimal(world.sheets[k].properties.sheetId)) =>
                    /\ ~result.isError
                    /\ result.content.kind = "sheet found"
                    /\ result.content.fields.title = world.sheets[k].properties.title
                    /\ result.content.fields.sheetId = world.sheets[k].properties.sheetId
              /\ LegacyCalledWithGid(world.sheets[k].properties.sheetId) =>
                    /\ result.content.fields.success = TRUE
                    /\ result.content.fields.data.title = world.sheets[k].properties.title
    /\ CalledWithGid(<<"0">>) =>
          /\ result.content.kind # "no gid provided"
          /\ requests = <<SpreadsheetsGetRequest(world.id, FALSE)>>
    /\ (op = "get_sheet_by_gid" /\ pc = "done" /\ Truthy(args.spreadsheet_id)
           /\ args.gid = Num(0))
          => requests # <<>>

\* The URL with #gid=0 given as url: the second sheet, whose gid is 0, found
C27_Witness ==
    /\ CalledWithGid(<<"0">>)
    /\ args.spreadsheetId = Undefined
    /\ args.url = Str(EditUrl(<<>>, GidFragment(<<"0">>, <<>>)))
    /\ Len(world.sheets) = 2
    /\ world.sheets[2].properties.sheetId = 0
    /\ result.content.kind = "sheet found"
    /\ result.content.fields.title = world.sheets[2].properties.title

\* The gid 0 given as the gid argument next to the bare id
C27_ArgumentWitness ==
    /\ CalledWithGid(<<"0">>)
    /\ args.spreadsheetId = Str(SpreadsheetId)
    /\ args.gid = Str(<<"0">>)
    /\ result.content.kind = "sheet found"
    /\ result.content.fields.sheetId = 0

\* The gid 0 given as ?gid=0
C27_QueryWitness ==
    /\ CalledWithGid(<<"0">>)
    /\ GivenInput = Str(EditUrl(<<Pair(GidName, <<"0">>)>>, NoFragment))
    /\ result.content.kind = "sheet found"
    /\ result.content.fields.sheetId = 0

\* The legacy handler given the number 0
C27_LegacyWitness ==
    /\ LegacyCalledWithGid(0)
    /\ result.content.fields.success = TRUE
    /\ result.content.fields.data.sheetId = 0

(***************************************************************************)
(* Claims about the rows get-sheet-preview asks for, under SpecServer      *)
(***************************************************************************)
PreviewDone == ToolDone /\ op = "get-sheet-preview"

\* The call got as far as its request (the spreadsheetId was parsed)
PreviewRequested == PreviewDone /\ requests # <<>>

\* The range of n rows of the sheet named in the call
RowsRange(n) ==
    TemplateText(args.sheetName) \o <<"!", "A", "1", ":", "Z", "Z">> \o Decimal(n)

\* The number of rows the statement gives for the numRows argument; it names
\* none for a number below 1.
StatedRows ==
    IF args.numRows = Undefined THEN {10}
    ELSE IF args.numRows.v > 50 THEN {50}
    ELSE IF args.numRows.v >= 1 THEN {args.numRows.v}
    ELSE 1..50

\* C28: for every numRows argument, get-sheet-preview fetches the range
\* A1:ZZ{n} of the sheet with 1 <= n <= 50: n is numRows when it is in
\* 1..50, 50 when numRows exceeds 50, and 10 when numRows is omitted.
C28_BoundedRows ==
    PreviewRequested =>
        /\ Len(requests) = 1
        /\ requests[1].api = "spreadsheets.values.get"
        /\ \E n \in StatedRows : requests[1].range = RowsRange(n)

\* The same for the calls whose numRows is omitted or at least 0.
C28_BoundedAbove ==
    (PreviewRequested /\ (args.numRows = Undefined \/ args.numRows.v >= 0)) =>
        /\ Len(requests) = 1
        /\ requests[1].api = "spreadsheets.values.get"
        /\ \E n \in StatedRows : requests[1].range = RowsRange(n)
        /\ args.numRows = Num(0) => requests[1].range = RowsRange(10)

\* numRows = 60: the range of 50 rows is asked for
C28_CapWitness ==
    /\ PreviewRequested
    /\ args.numRows = Num(60)
    /\ requests[1].range = RowsRange(50)

\* numRows = -3: the range asked for ends in ZZ-3
C28_NegativeWitness ==
    /\ PreviewRequested
    /\ args.numRows = Num(0 - 3)
    /\ requests[1].range = RowsRange(0 - 3)
    /\ result.isError

(***************************************************************************)
(* Claims about which tools write, under SpecServer                        *)
(***************************************************************************)
ReadTools ==
    {"get-spreadsheet", "get-values", "list-sheets", "get-sheet-by-gid",
     "get-sheet-info", "get-sheet-preview", "search-values", "find-in-column"}

\* The request each writing tool makes of the client
WriteApi ==
    [t \in {"update-values", "append-values", "clear-values", "create-spreadsheet"} |->
        CASE t = "update-values" -> "spreadsheets.values.update"
          [] t = "append-values" -> "spreadsheets.values.append"
          [] t = "clear-values" -> "spreadsheets.values.clear"
          [] t = "create-spreadsheet" -> "spreadsheets.create"]

ReadApis == {"spreadsheets.get", "spreadsheets.values.get"}
WriteApis == {WriteApi[t] : t \in DOMAIN WriteApi} \cup {"spreadsheets.batchUpdate"}

\* The requests of the sequence that write
Mutating(reqs) == {i \in 1..Len(reqs) : reqs[i].api \in WriteApis}

\* The arguments of a writing tool get it as far as the client's method and
\* past the required-parameter check of the request
ReachesClient(name, a) ==
    CASE name = "create-spreadsheet" -> TRUE
      [] name = "clear-values" ->
            /\ parseSpreadsheetInput(a.spreadsheetId).kind = "return"
            /\ a.range # Undefined
      [] OTHER ->
            /\ parseSpreadsheetInput(a.spreadsheetId).kind = "return"
            /\ a.range # Undefined
            /\ a.values # Undefined

\* C29: the reading tools (get-spreadsheet, get-values, list-sheets,
\* get-sheet-by-gid, get-sheet-info, get-sheet-preview, search-values,
\* find-in-column) send nothing but spreadsheets.get and
\* spreadsheets.values.get and leave the spreadsheet as it was; update-values,
\* append-values, clear-values and create-spreadsheet send no request but the
\* one of their name, once when their arguments reach the client and not at
\* all otherwise.
C29_OnlyWritersWrite ==
    [][(pc = "ready" /\ pc' = "done") =>
          /\ op' \in ReadTools =>
                /\ world' = world
                /\ Mutating(requests') = {}
                /\ \A i \in 1..Len(requests') : requests'[i].api \in ReadApis
          /\ op' \in DOMAIN WriteApi =>
                /\ \A i \in 1..Len(requests') : requests'[i].api = WriteApi[op']
                /\ Len(requests') = IF ReachesClient(op', args') THEN 1 ELSE 0
          /\ (op' \in Range(getAllToolDefinitions(toolModules)) /\ world' # world)
                => op' \in {"update-values", "append-values", "clear-values"}
      ]_vars

\* search-values has read a sheet with cells and found matches
C29_Witness ==
    /\ ToolDone /\ op = "search-values"
    /\ ~result.isError
    /\ Len(requests) = 1
    /\ requests[1].api = "spreadsheets.values.get"
    /\ result.content.kind # "no matches"

\* update-values has sent its one request
C29_WriteWitness ==
    /\ ToolDone /\ op = "update-values"
    /\ ~result.isError
    /\ Len(requests) = 1
    /\ requests[1].api = "spreadsheets.values.update"

\* clear-values without a range has sent nothing
C29_NoRequestWitness ==
    /\ ToolDone /\ op = "clear-values"
    /\ args.range = Undefined
    /\ parseSpreadsheetInput(args.spreadsheetId).kind = "return"
    /\ requests = <<>>
    /\ result.isError

(***************************************************************************)
(* Claims about the end of a tool call, under SpecCall                     *)
(***************************************************************************)
\* The scan done in steps ends with what the handler returns
ScanResult == ServerTool("search-values", SearchValues(args, world).outcome)

\* A call has returned: one result, a tool result or the column letter
Returned ==
    /\ pc = "done"
    /\ IF op = "columnIndexToLetter"
       THEN result = Return(columnIndexToLetter(args.index))
       ELSE /\ DOMAIN result = {"content", "isError"}
            /\ result.isError \in BOOLEAN

\* C30: a tool call that has started runs to its end, provided every
\* upstream request is answered or fails: it returns a result, success or
\* error-flagged, and returns it once; the scan of search-values ends for
\* every fetched grid with the result of the handler, and the loop of
\* columnIndexToLetter ends for every index >= 0 with the column letter.
C30_CallsReturn ==
    /\ (pc \in InFlight) ~> Returned
    /\ [](pc = "done" => Returned)
    /\ [][pc = "done" => UNCHANGED vars]_vars
    /\ []((pc = "done" /\ op = "search-values" /\ requests # <<>>) =>
             (result = ScanResult \/ result = ServerTool(op, Throw("upstream error"))))
    /\ [][(pc \in {"scanning", "lettering"} /\ pc' = "done" /\ op = "search-values")
             => (result' = ScanResult)]_vars

\* search-values has scanned a grid of two rows and returned its matches
C30_Witness ==
    /\ pc = "done" /\ op = "search-values"
    /\ Len(world.sheets[1].grid) = 2
    /\ ~result.isError
    /\ result.content.kind = "found"
    /\ result.content.fields.found = 2

\* The loop has run three times and returned AAA
C30_LetterWitness ==
    /\ pc = "done" /\ op = "columnIndexToLetter"
    /\ args.index = 702
    /\ result = Return(<<"A", "A", "A">>)

\* The request of a call failed on the way and the call returned the error
C30_FailureWitness ==
    /\ pc = "done" /\ op = "search-values"
    /\ result = ServerTool(op, Throw("upstream error"))

\* update-values has returned after the upstream's answer
C30_WriteWitness ==
    /\ pc = "done" /\ op = "update-values"
    /\ ~result.isError
    /\ Len(requests) = 1

=============================================================================
